---- MODULE Spec2Model ----
(***************************************************************************)
(* GeomecFVLib: the benchmark drivers of benchmarking.hpp (sealedColumn,   *)
(* terzaghi, mandel, convergence, stripfoot and the dual-porosity          *)
(* benchmarks) and the mains mainDimless.cpp / mainDouble.cpp that call    *)
(* them.  A benchmark is modelled statement by statement: pc is the        *)
(* statement about to run, ProgramOrder is the order of the statements in  *)
(* the function bodies.  The classes the benchmarks call (gridDesign,      *)
(* coefficientsAssembly, independentTermsAssembly, linearSystemSolver)     *)
(* are modelled by what their methods do to the objects, in operators of   *)
(* their own, apart from the call sites.                                   *)
(***************************************************************************)
EXTENDS Integers, Sequences, FiniteSets, TLC

\* ------------------------------------------------------------------ bounds
\* Largest number of time levels Nt of a directly called benchmark.
MaxNt == 3
\* Largest number of active control volumes per quantity.
MaxCells == 2
\* Largest number of solver calls the contract harness makes.
MaxCalls == 5

\* --------------------------------------------------------------- benchmarks
SingleBenchmarks == {"sealedColumn", "terzaghi", "mandel", "convergence", "stripfoot"}

DoubleBenchmarks ==
  {"terzaghiDouble", "stripfootDouble", "sealedDouble", "storageDouble", "leakingDouble"}

Benchmarks == SingleBenchmarks \cup DoubleBenchmarks

IsDouble(b) == b \in DoubleBenchmarks

IsStripfoot(b) == b \in {"stripfoot", "stripfootDouble"}

\* Benchmarks whose problem object applies initial conditions to the fields.
AppliesInitialConditions(b) ==
  b \in {"sealedColumn", "terzaghi", "mandel", "convergence", "stripfoot",
         "storageDouble", "leakingDouble"}

\* The field arrays a benchmark carries: u, v, p and, dual-porosity, the
\* macro (fracture) pressure.
Quantities(b) == IF IsDouble(b) THEN {"u", "v", "p", "pM"} ELSE {"u", "v", "p"}

\* Return codes of a PETSc-backed call: 0, or an error code.
ErrCodes == {0, 1}

\* The entries of timestepSize in the two mains.
TimestepCount(p) == IF p = "mainDimless" THEN 4 ELSE 2

MainBenchmark(p) == IF p = "mainDimless" THEN "terzaghi" ELSE "terzaghiDouble"

\* int Nt=2 in both mains.
MainNt == 2

\* timestepSize of the two mains, in hundredths.
TimestepSize(p) == IF p = "mainDimless" THEN <<25, 10, 5, 1>> ELSE <<25, 10>>

\* The total time a benchmark called directly is given.
DirectLt == 12

\* A quotient of two numbers, kept as the pair; a zero divisor stays visible.
Divide(a, b) == [num |-> a, den |-> b]

\* Two quotients with the same value.
SameValue(x, y) == x.den # 0 /\ y.den # 0 /\ x.num * y.den = y.num * x.den

\* Mutant: the builder divides by the number of time levels.
TimeStepSizeOverLevels(lt, nt) == Divide(lt, nt)

\* dt of gridDesign: the total time over the number of steps.
TimeStepSize(lt, nt) == Divide(lt, nt - 1)

\* --------------------------------------------------------- statement order
\* The statements of a benchmark body in program order.  "loopTest" is the
\* for-loop condition; its successor here is the first statement of the body,
\* LoopExit is where the loop leaves to.
ProgramOrder(b, p) ==
  CASE p = "grid" -> "problem"
    [] p = "problem" -> "coeff"
    [] p = "coeff" ->
         IF b = "mandel" THEN "coeffMandel"
         ELSE IF IsStripfoot(b) THEN "coeffStrip" ELSE "passCoeff"
    [] p = "coeffMandel" -> "sparseMandel"
    [] p = "sparseMandel" -> "passCoeff"
    [] p = "coeffStrip" -> IF b = "stripfootDouble" THEN "coeffMacroStrip" ELSE "passCoeff"
    [] p = "coeffMacroStrip" -> "passCoeff"
    [] p = "passCoeff" -> "construct"
    [] p = "construct" -> IF b = "mandel" \/ IsDouble(b) THEN "increase" ELSE "factorize"
    [] p = "increase" -> IF IsDouble(b) THEN "createMacro" ELSE "factorize"
    [] p = "createMacro" -> "factorize"
    [] p = "factorize" -> "createArrays"
    [] p = "createArrays" -> "zeroInit"
    [] p = "zeroInit" -> "loopTest"
    [] p = "loopTest" -> "assemble"
    [] p = "assemble" ->
         IF b = "mandel" THEN "assembleMandel"
         ELSE IF IsStripfoot(b) THEN "assembleStrip" ELSE "passRHS"
    [] p = "assembleMandel" -> "passRHS"
    [] p = "assembleStrip" ->
         IF b = "stripfootDouble" THEN "assembleMacroStrip" ELSE "passRHS"
    [] p = "assembleMacroStrip" -> "passRHS"
    [] p = "passRHS" -> "zeroPre"
    [] p = "zeroPre" -> "setRHS"
    [] p = "setRHS" -> "solve"
    [] p = "solve" -> "setField"
    [] p = "setField" -> IF IsDouble(b) THEN "setMacroField" ELSE "passSolutions"
    [] p = "setMacroField" -> "passSolutions"
    [] p = "passSolutions" -> "zeroPost"
    [] p = "zeroPost" -> "progress"
    [] p = "progress" -> "loopTest"
    [] p = "summary" -> IF b = "convergence" THEN "dataProc" ELSE "exportList"
    [] p = "exportList" -> "dataProc"
    [] p = "dataProc" -> IF b = "convergence" THEN "errorNorm" ELSE "export"
    [] p = "errorNorm" -> "return"
    [] p = "export" -> "return"
    [] p = "return" -> "done"
    [] OTHER -> "done"

\* Mutants of the statement order.
SuccRefactorize(b, p) == IF p = "progress" THEN "factorize" ELSE ProgramOrder(b, p)

SuccNoZeroPost(b, p) == IF p = "passSolutions" THEN "progress" ELSE ProgramOrder(b, p)

SuccVariantFirst(b, p) ==
  IF b = "stripfoot" /\ p = "loopTest" THEN "assembleStrip"
  ELSE IF b = "stripfoot" /\ p = "assembleStrip" THEN "assemble"
  ELSE IF b = "stripfoot" /\ p = "assemble" THEN "passRHS"
  ELSE ProgramOrder(b, p)

SuccNoMacroExtract(b, p) ==
  IF p = "setField" THEN "passSolutions" ELSE ProgramOrder(b, p)

\* Mutant: the strip-footing additions are called after the factorization.
SuccVariantAfterFactorization(b, p) ==
  IF IsStripfoot(b) /\ p = "coeff" THEN "passCoeff"
  ELSE IF IsStripfoot(b) /\ p = "factorize" THEN "coeffStrip"
  ELSE IF IsStripfoot(b) /\ ProgramOrder(b, p) = "passCoeff" THEN "createArrays"
  ELSE ProgramOrder(b, p)

Succ(b, p) == ProgramOrder(b, p)

\* Mutant: the finished loop goes back to its own test.
LoopNeverExits(b) == "loopTest"

\* Where the step loop leaves to: the summary line printed after it.
LoopExit(b) == "summary"

\* for(timeStep=0; timeStep<Nt-1; timeStep++)
LoopContinues(t, nt) == t < nt - 1

\* setFieldValue(timeStep+1)
StepIndexSame(t) == t

StepIndex(t) == t + 1

\* Mutant: the code is not looked at.
ChkIgnore(e, next) == next

\* CHKERRQ(ierr): a nonzero code returns from the function at once.
Chk(e, next) == IF e # 0 THEN "aborted" ELSE next

\* ------------------------------------------------------------ configuration
\* The strings a run may be given as gridType and interpScheme.
ArrangementModes == {"staggered", "collocated", "unknown"}

Schemes == {"NA", "CDS", "I2DPIS", "unknown"}

\* The combinations an operator is defined for.
DefinedCombinations ==
  {<<"staggered", "NA">>, <<"collocated", "CDS">>, <<"collocated", "I2DPIS">>}

\* Mutant: every combination is let through to the assembly.
AnyCombinationDefined(gt, is) == TRUE

\* The check of coefficientsAssembly on its gridType and interpScheme.
CombinationDefined(gt, is) == <<gt, is>> \in DefinedCombinations

\* ---------------------------------------------------------- boundary tables
\* The sides of a table, in row order: north, west, south, east.
Sides == 1..4

\* The codes of a boundary type: Dirichlet, Neumann, stress / fluid flow.
BcCodes == {1, 0, -1}

\* Mutant: the north row carries a code outside the enumeration.
BcTypeUnknownCode(b) ==
  IF IsDouble(b) THEN << <<-1, -1, 2, 2>>, <<1, -1, -1, -1>>, <<-1, 1, -1, -1>>, <<1, -1, -1, -1>> >>
  ELSE << <<-1, -1, 2>>, <<1, -1, -1>>, <<-1, 1, 0>>, <<1, -1, -1>> >>

\* vector<vector<int>> bcType={...} as each benchmark declares it.
BcType(b) ==
  CASE b = "sealedColumn" ->
         << <<-1, -1, 0>>, <<1, -1, -1>>, <<-1, 1, 0>>, <<1, -1, -1>> >>
    [] b \in {"terzaghi", "convergence"} ->
         << <<-1, -1, 1>>, <<1, -1, -1>>, <<-1, 1, 0>>, <<1, -1, -1>> >>
    [] b = "mandel" ->
         << <<-1, -1, 0>>, <<1, -1, -1>>, <<-1, 1, 0>>, <<-1, -1, 1>> >>
    [] b = "stripfoot" ->
         << <<-1, -1, -1>>, <<1, -1, -1>>, <<-1, 1, -1>>, <<1, -1, -1>> >>
    [] b \in {"terzaghiDouble", "storageDouble", "leakingDouble"} ->
         << <<-1, -1, 1, 1>>, <<1, -1, -1, -1>>, <<-1, 1, -1, -1>>, <<1, -1, -1, -1>> >>
    [] b \in {"stripfootDouble", "sealedDouble"} ->
         << <<-1, -1, -1, -1>>, <<1, -1, -1, -1>>, <<-1, 1, -1, -1>>, <<1, -1, -1, -1>> >>

\* vector<vector<double>> bcValue={...} as each benchmark declares it; the
\* entries are the expressions of the source.
BcValue(b) ==
  CASE b = "sealedColumn" ->
         << <<"0", "sigmab", "rho_f*g">>, <<"0", "0", "0">>,
            <<"0", "0", "rho_f*g">>, <<"0", "0", "0">> >>
    [] b \in {"terzaghi", "convergence"} ->
         << <<"0", "sigmab", "0">>, <<"0", "0", "0">>,
            <<"0", "0", "rho_f*g">>, <<"0", "0", "0">> >>
    [] b = "mandel" ->
         << <<"0", "0", "rho_f*g">>, <<"0", "0", "0">>,
            <<"0", "0", "rho_f*g">>, <<"0", "0", "0">> >>
    [] b = "stripfoot" ->
         << <<"0", "0", "0">>, <<"0", "0", "0">>, <<"0", "0", "0">>, <<"0", "0", "0">> >>
    [] b = "stripfootDouble" ->
         << <<"0", "0", "0", "0">>, <<"0", "0", "0", "0">>,
            <<"0", "0", "0", "0">>, <<"0", "0", "0", "0">> >>
    [] b \in {"terzaghiDouble", "sealedDouble", "storageDouble", "leakingDouble"} ->
         << <<"0", "sigmab", "0", "0">>, <<"0", "0", "0", "0">>,
            <<"0", "0", "0", "0">>, <<"0", "0", "0", "0">> >>

\* ------------------------------------------------------------ mesh builder
\* Active control-volume counts handed over by gridDesign (Nu, Nv, NP).
CellCounts == [Nu : 1..MaxCells, Nv : 1..MaxCells, NP : 1..MaxCells]

\* The sentinel of an index map: the position is outside the domain.
Inactive == -1

\* The logical positions <<row, column>> of the bounding rectangle: two rows.
Positions == (1..2) \X (1..MaxCells)

\* Mutant: the candidates column after column.
ColumnMajor ==
  [k \in 1..(2 * MaxCells) |-> <<((k - 1) % 2) + 1, ((k - 1) \div 2) + 1>>]

\* The candidates in the order gridDesign visits them: row after row.
RowMajor ==
  [k \in 1..(2 * MaxCells) |-> <<((k - 1) \div MaxCells) + 1, ((k - 1) % MaxCells) + 1>>]

\* Mutant: indices from 1.
NextIndexFromOne(coo) == Len(coo) + 1

\* The index of the next active cell: the number of cells indexed so far.
NextIndex(coo) == Len(coo)

\* Mutant: the position goes to the front of the table.
RecordFirst(coo, p) == <<p>> \o coo

\* The coordinate table gets the position of the cell just indexed.
RecordCoordinates(coo, p) == Append(coo, p)

RECURSIVE IndexCells(_, _, _)
\* gridDesign's walk over the candidates from the k-th on: an active one gets
\* the next index and its line in the coordinate table, the others keep the
\* sentinel.  acc holds the index map and the coordinate table so far.
IndexCells(k, active, acc) ==
  IF k > Len(RowMajor) THEN acc
  ELSE LET p == RowMajor[k]
       IN IF p \in active
          THEN IndexCells(k + 1, active,
                 [id |-> [acc.id EXCEPT ![p] = NextIndex(acc.coo)],
                  coo |-> RecordCoordinates(acc.coo, p)])
          ELSE IndexCells(k + 1, active, acc)

\* The index map and coordinate table of one quantity.
IndexQuantity(active) ==
  IndexCells(1, active, [id |-> [p \in Positions |-> Inactive], coo |-> << >>])

\* The status of a face from the two cells that share it (one of them may lie
\* outside the rectangle).
FaceStatus(active, p, q) ==
  IF p \in active /\ q \in active THEN "inside"
  ELSE IF p \in active \/ q \in active THEN "boundary"
  ELSE "outside"

\* Faces between a row and the next (0 and 3 are outside the rectangle).
HorizontalFaces(active) ==
  [f \in (0..2) \X (1..MaxCells) |-> FaceStatus(active, f, <<f[1] + 1, f[2]>>)]

\* Faces between a column and the next.
VerticalFaces(active) ==
  [f \in (1..2) \X (0..MaxCells) |-> FaceStatus(active, f, <<f[1], f[2] + 1>>)]

\* A domain: the active positions of u, v and the pressure, as the polygon
\* and the arrangement leave them.  gridDesign's members for it; dt, which
\* depends on Lt and Nt and not on the domain, is filled in by MeshFor.
GridDesign(d) ==
  LET U == IndexQuantity(d.u)
      V == IndexQuantity(d.v)
      P == IndexQuantity(d.p)
  IN [Nu |-> Len(U.coo), Nv |-> Len(V.coo), NP |-> Len(P.coo),
      idU |-> U.id, idV |-> V.id, idP |-> P.id,
      cooU |-> U.coo, cooV |-> V.coo, cooP |-> P.coo,
      horFaceStatus |-> HorizontalFaces(d.p), verFaceStatus |-> VerticalFaces(d.p),
      dx |-> "Lx/Nx", dy |-> "Ly/Ny", dt |-> Divide(0, 0), h |-> "h"]

\* The first / the last n candidates in row-major order, the first n in
\* column-major order.
FirstCells(n) == {RowMajor[k] : k \in 1..n}

LastCells(n) == {RowMajor[k] : k \in (2 * MaxCells - n + 1)..(2 * MaxCells)}

FirstInColumns(n) == {ColumnMajor[k] : k \in 1..n}

\* Staggered domains, one per choice of active-cell counts.
StaggeredDomains ==
  {[u |-> LastCells(c.Nu), v |-> FirstCells(c.Nv), p |-> FirstInColumns(c.NP)] :
     c \in CellCounts}

\* gridDesign's members for a mesh built with total time lt and nt levels.
MeshFor(m, lt, nt) == [m EXCEPT !.dt = TimeStepSize(lt, nt)]

\* Domains whose polygon leaves some quantity, or every quantity, no cell.
DegenerateDomains ==
  {[u |-> {}, v |-> FirstCells(1), p |-> FirstInColumns(1)],
   [u |-> LastCells(1), v |-> {}, p |-> FirstInColumns(1)],
   [u |-> LastCells(1), v |-> FirstCells(1), p |-> {}],
   [u |-> {}, v |-> {}, p |-> {}]}

\* Mutant: only the pressure cells are counted.
NoPressureCells(g) == g.NP = 0

\* The check of gridDesign on what the polygon left: some quantity has no
\* active cell.
NoActiveCells(g) == g.Nu = 0 \/ g.Nv = 0 \/ g.NP = 0

\* Collocated domains: the three quantities share the cell centres.
CollocatedDomains == {[u |-> A, v |-> A, p |-> A] : A \in (SUBSET Positions) \ {{}}}

\* The index map, coordinate table and count of quantity q (the macro
\* pressure lives on the pressure cells).
IdOf(g, q) == CASE q = "u" -> g.idU [] q = "v" -> g.idV [] OTHER -> g.idP

CooOf(g, q) == CASE q = "u" -> g.cooU [] q = "v" -> g.cooV [] OTHER -> g.cooP

CountOf(g, q) == CASE q = "u" -> g.Nu [] q = "v" -> g.Nv [] OTHER -> g.NP

\* The active control volumes of a benchmark's quantities.
ActiveCells(b, g) ==
  ({"u"} \X (1..g.Nu)) \cup ({"v"} \X (1..g.Nv)) \cup ({"p"} \X (1..g.NP))
    \cup (IF IsDouble(b) THEN {"pM"} \X (1..g.NP) ELSE {})

\* The operator row of an active control volume: u, then v, then p, then pM.
RowOf(g, qc) ==
  CASE qc[1] = "u" -> qc[2]
    [] qc[1] = "v" -> g.Nu + qc[2]
    [] qc[1] = "p" -> g.Nu + g.Nv + qc[2]
    [] OTHER -> g.Nu + g.Nv + g.NP + qc[2]

RowOwners(b, g, r) == {qc \in ActiveCells(b, g) : RowOf(g, qc) = r}

\* One entry of a field array: the value of quantity q at time level step, who
\* wrote it (the grid's zero fill, the initial conditions, or the solver), and
\* for a solver value the time steps of the RHS rows it was solved from.
FieldEntry(q, w, k, from) == [q |-> q, w |-> w, step |-> k, rhsSteps |-> from]

\* gridDesign: one zero-filled array per quantity with Nt time levels.
GridFields(b, nt) ==
  [q \in Quantities(b) |-> [k \in 0..(nt - 1) |-> FieldEntry(q, "grid", k, {})]]

\* The quantities the initial conditions are applied to.
ICQuantities(b) ==
  IF ~AppliesInitialConditions(b) THEN {}
  ELSE IF IsDouble(b) THEN {"v", "p", "pM"} ELSE {"u", "v", "p"}

\* apply...InitialConditions: time level 0 of the fields.
ApplyInitialConditions(b, f) ==
  [q \in DOMAIN f |->
     IF q \in ICQuantities(b)
     THEN [f[q] EXCEPT ![0] = FieldEntry(q, "ic", 0, {})]
     ELSE f[q]]

\* ------------------------------------------------------- operator assembler
\* The number of equations of the base assembly: one per active control
\* volume of each quantity, the second pressure of dual porosity included.
BaseRows(b, g) == g.Nu + g.Nv + g.NP + (IF IsDouble(b) THEN g.NP ELSE 0)

\* Rows appended for Mandel's rigid plate.
MandelExtraRows == 1

RECURSIVE SumAt(_, _, _)
\* The sum of the values a triplet list holds for (r, c).
SumAt(ts, r, c) ==
  IF ts = << >> THEN 0
  ELSE (IF Head(ts)[1] = r /\ Head(ts)[2] = c THEN Head(ts)[3] ELSE 0)
       + SumAt(Tail(ts), r, c)

\* A dense matrix: its size and its entries.
DenseOf(n, ts) == [n |-> n, a |-> [rc \in (1..n) \X (1..n) |-> SumAt(ts, rc[1], rc[2])]]

EmptyDense == [n |-> 0, a |-> [rc \in {} |-> 0]]

\* The stencil contributions of the base assembly, row after row: two
\* overlapping contributions on the diagonal, one neighbour, and a pair of
\* contributions to a second neighbour that cancel.
StencilContributions(n) ==
  [k \in 1..(5 * n) |->
     LET r == ((k - 1) \div 5) + 1
         j == (k - 1) % 5
     IN CASE j = 0 -> <<r, r, 1>>
          [] j = 1 -> <<r, r, 1>>
          [] j = 2 -> <<r, (r % n) + 1, -1>>
          [] j = 3 -> <<r, ((r + 1) % n) + 1, 1>>
          [] OTHER -> <<r, ((r + 1) % n) + 1, -1>>]

\* The entries of a dense matrix as triplets, row-major, zeros included.
DenseEntries(m) ==
  [k \in 1..(m.n * m.n) |->
     <<((k - 1) \div m.n) + 1, ((k - 1) % m.n) + 1,
       m.a[<<((k - 1) \div m.n) + 1, ((k - 1) % m.n) + 1>>]>>]

\* assemblySparseMatrix: the triplets of the non-zero entries, row-major.
AssemblySparseMatrix(m) == SelectSeq(DenseEntries(m), LAMBDA t : t[3] # 0)

\* The dense matrix a triplet list stands for (values summed per position).
Redensify(ts, n) == DenseOf(n, ts)

\* coefficientsAssembly's working state: the dense form and the triplets.
NewCoefficients == [dense |-> EmptyDense, sparse |-> << >>]

\* assemblyCoefficientsMatrix / assemblyDoublePorosityMatrix: accumulates the
\* stencil contributions in the dense form and produces the triplets.
AssemblyCoefficientsMatrix(b, g) ==
  LET d == DenseOf(BaseRows(b, g), StencilContributions(BaseRows(b, g)))
  IN [dense |-> d, sparse |-> AssemblySparseMatrix(d)]

\* Mutant: no row is appended.
MandelAppendsNothing(c) == c

\* assemblyMandelCoefficientsMatrix: appends the plate's rows and columns to
\* the dense form (the benchmark re-runs assemblySparseMatrix itself).
AssemblyMandelCoefficientsMatrix(c) ==
  LET n == c.dense.n
      n2 == n + MandelExtraRows
      a2 == [rc \in (1..n2) \X (1..n2) |->
               IF rc[1] <= n /\ rc[2] <= n THEN c.dense.a[rc]
               ELSE IF rc[1] = rc[2] THEN 1
               ELSE IF rc[1] > n /\ rc[2] = n THEN 1
               ELSE IF rc[2] > n /\ rc[1] = n THEN -1
               ELSE 0]
  IN [c EXCEPT !.dense = [n |-> n2, a |-> a2]]

\* The row a strip-footing boundary condition overrides: the first pressure
\* row (addStripfootBC) or the first macro-pressure row (addMacroStripfootBC).
StripRow(g) == g.Nu + g.Nv + 1

MacroStripRow(g) == g.Nu + g.Nv + g.NP + 1

\* The dense form with row overridden by a unit row; the triplets as they were.
OverrideDenseRow(c, row) ==
  [c EXCEPT !.dense.a =
     [rc \in DOMAIN c.dense.a |->
        IF rc[1] = row THEN (IF rc[2] = row THEN 1 ELSE 0) ELSE c.dense.a[rc]]]

\* addStripfootBC / addMacroStripfootBC of coefficientsAssembly: the row is
\* overridden by a unit row in the dense form and the triplets are produced
\* from it again.
OverrideRow(c, row) ==
  LET d == OverrideDenseRow(c, row).dense
  IN [dense |-> d, sparse |-> AssemblySparseMatrix(d)]

\* ------------------------------------------------------------ RHS assembler
\* One row of the independent-terms array: the call that wrote it last, the
\* loop iteration it was written in, the field entries it was computed from,
\* and the writer it replaced within the same iteration ("none" if rebuilt).
RhsRow(by, t, src, prev) == [by |-> by, step |-> t, src |-> src, prev |-> prev]

\* independentTermsAssembly's constructor: one row per active control volume
\* of u, v and p.
NewTerms(g) == [r \in 1..(g.Nu + g.Nv + g.NP) |-> RhsRow("ctor", -1, {}, "none")]

\* Mutant: the array is not enlarged.
IncreaseNothing(b, arr, g) == arr

\* increaseMandelIndependentTermsArray / increaseMacroIndependentTermsArray:
\* the array grows by the rows the operator has beyond Nu+Nv+NP.
IncreaseIndependentTermsArray(b, arr, g) ==
  arr \o [k \in 1..(IF b = "mandel" THEN MandelExtraRows ELSE g.NP) |->
            RhsRow("increase", -1, {}, "none")]

\* The field entries an assembly at loop iteration t reads: time level t.
FieldsRead(f, t) == {f[q][t] : q \in DOMAIN f}

\* assemblyIndependentTermsArray / assemblyMacroIndependentTermsArray: every
\* row of a balance equation is rebuilt from the boundary values and the
\* fields of the previous time level.
AssemblyIndependentTermsArray(b, arr, g, f, t) ==
  [r \in 1..Len(arr) |->
     IF r <= BaseRows(b, g) THEN RhsRow("base", t, FieldsRead(f, t), "none") ELSE arr[r]]

\* The rows a variant call writes.
VariantRows(variant, g, len) ==
  CASE variant = "mandel" -> {g.Nu + g.Nv} \cup ((g.Nu + g.Nv + g.NP + 1)..len)
    [] variant = "stripfoot" -> {g.Nu + g.Nv}
    [] variant = "macroStripfoot" -> {g.Nu + g.Nv + g.NP + 1}
    [] OTHER -> {}

\* assemblyMandelIndependentTermsArray, addStripfootBC, addMacroStripfootBC of
\* independentTermsAssembly: the variant's rows are overridden.
VariantIndependentTerms(variant, arr, g, t) ==
  [r \in 1..Len(arr) |->
     IF r \in VariantRows(variant, g, Len(arr))
     THEN RhsRow(variant, t, {}, IF arr[r].step = t THEN arr[r].by ELSE "none")
     ELSE arr[r]]

\* ------------------------------------------------------ time-stepping solver
\* What a cell of a field array holds that no scatter has written.
NotWritten == 0

\* Per time level of a field array, the solution row each cell was filled from.
NoCells(levels) == [k \in levels |-> [p \in Positions |-> NotWritten]]

\* linearSystemSolver's constructor: copies of the operator, of u, v, p, and
\* of the counts, index maps and coordinate tables.
NewSolver(op, f, g) ==
  [state |-> "Unfactored", dense |-> op.dense, sparse |-> op.sparse,
   arrays |-> "none", rhs |-> << >>, solFrom |-> {},
   fields |-> [q \in {"u", "v", "p"} |-> f[q]],
   grid |-> g,
   cells |-> [q \in {"u", "v", "p"} |-> NoCells(DOMAIN f[q])]]

\* The operator's row count as the solver sees it.
SolverRows(s) == s.dense.n

\* createMacroPressureField(pFracField).
CreateMacroPressureField(s, pFrac) ==
  [s EXCEPT !.fields = [q \in {"u", "v", "p", "pM"} |-> IF q = "pM" THEN pFrac ELSE s.fields[q]],
            !.cells = [q \in {"u", "v", "p", "pM"} |->
                         IF q = "pM" THEN NoCells(DOMAIN pFrac) ELSE s.cells[q]]]

\* Every solver call below yields the set of its outcomes <<ierr, solver>>: the
\* library may report an error from any call, and then nothing is changed.
Failed(s) == {<<e, s>> : e \in ErrCodes \ {0}}

\* coefficientsMatrixLUFactorization: Unfactored -> Factored.
CoefficientsMatrixLUFactorization(s) ==
  {<<0, [s EXCEPT !.state = "Factored"]>>} \cup Failed(s)

\* createPETScArrays.
CreatePETScArrays(s) == {<<0, [s EXCEPT !.arrays = "created"]>>} \cup Failed(s)

\* zeroPETScArrays: the working buffers hold no value.
ZeroPETScArrays(s) ==
  IF s.arrays = "none" THEN Failed(s)
  ELSE {<<0, [s EXCEPT !.arrays = "zero", !.rhs = << >>, !.solFrom = {}]>>} \cup Failed(s)

\* The load itself: the array becomes the content of the RHS buffer.
LoadRHS(s, arr) ==
  IF s.arrays = "none" THEN Failed(s)
  ELSE {<<0, [s EXCEPT !.arrays = "rhs", !.rhs = arr]>>} \cup Failed(s)

\* setRHSValue: loads the array; an array whose length is not the operator's
\* row count is a dimension mismatch.
SetRHSValue(s, arr) ==
  IF Len(arr) # SolverRows(s) THEN Failed(s) ELSE LoadRHS(s, arr)

\* Mutant: solves whatever the state.
SolveLinearSystemAnyState(s) ==
  IF s.arrays = "none" THEN Failed(s)
  ELSE {<<0, [s EXCEPT !.arrays = "sol", !.solFrom = {s.rhs[r].step : r \in 1..Len(s.rhs)}]>>}
         \cup Failed(s)

\* Mutant: a solution left in the buffer is taken as the starting guess.
SolveLinearSystemWarmStart(s) ==
  IF s.state # "Factored" \/ s.arrays = "none" THEN Failed(s)
  ELSE {<<0, [s EXCEPT !.arrays = "sol",
                       !.solFrom = {s.rhs[r].step : r \in 1..Len(s.rhs)}
                                     \cup (IF s.arrays = "sol" THEN {-1} ELSE {})]>>}
         \cup Failed(s)

\* solveLinearSystem: valid only once factorized.
SolveLinearSystem(s) ==
  IF s.state # "Factored" THEN Failed(s) ELSE SolveLinearSystemAnyState(s)

\* The scatter of one quantity: the cell in line i of the coordinate table is
\* filled from the solution row of control volume i of the quantity's block;
\* the other cells are left as they are.
ScatterCells(g, q, old) ==
  LET coo == CooOf(g, q)
  IN [p \in Positions |->
        IF \E i \in 1..Len(coo) : coo[i] = p
        THEN RowOf(g, <<q, CHOOSE i \in 1..Len(coo) : coo[i] = p>>)
        ELSE old[p]]

\* Mutant: the solution is scattered into every time level up to k.
ScatterFieldsUpTo(s, qs, k) ==
  IF ~(qs \subseteq DOMAIN s.fields) \/ k \notin DOMAIN s.fields["u"] THEN Failed(s)
  ELSE {<<0, [s EXCEPT !.fields =
                [q \in DOMAIN s.fields |->
                   IF q \in qs
                   THEN [j \in DOMAIN s.fields[q] |->
                           IF j <= k THEN FieldEntry(q, "solver", j, s.solFrom)
                           ELSE s.fields[q][j]]
                   ELSE s.fields[q]],
              !.cells =
                [q \in DOMAIN s.cells |->
                   IF q \in qs
                   THEN [s.cells[q] EXCEPT ![k] = ScatterCells(s.grid, q, s.cells[q][k])]
                   ELSE s.cells[q]]]>>} \cup Failed(s)

\* setFieldValue(k) / setMacroFieldValue(k): the solution is scattered into
\* time level k of the named field arrays.
ScatterFields(s, qs, k) ==
  IF ~(qs \subseteq DOMAIN s.fields) \/ k \notin DOMAIN s.fields["u"] THEN Failed(s)
  ELSE {<<0, [s EXCEPT !.fields =
                [q \in DOMAIN s.fields |->
                   IF q \in qs
                   THEN [s.fields[q] EXCEPT ![k] = FieldEntry(q, "solver", k, s.solFrom)]
                   ELSE s.fields[q]],
              !.cells =
                [q \in DOMAIN s.cells |->
                   IF q \in qs
                   THEN [s.cells[q] EXCEPT ![k] = ScatterCells(s.grid, q, s.cells[q][k])]
                   ELSE s.cells[q]]]>>} \cup Failed(s)

SetFieldValue(s, k) == ScatterFields(s, {"u", "v", "p"}, k)

SetMacroFieldValue(s, k) == ScatterFields(s, {"pM"}, k)

\* Before myLinearSystemSolver is constructed.
NoSolver ==
  NewSolver(NewCoefficients, [q \in {"u", "v", "p"} |-> [k \in {} |-> 0]],
            [Nu |-> 0, Nv |-> 0, NP |-> 0])

\* ------------------------------------------------------------------ exports
\* exportedTimeSteps as each benchmark builds it (integer division).
ExportedTimeSteps(b, nt) ==
  IF nt = 2 /\ b # "sealedColumn" THEN <<1>>
  ELSE CASE b = "mandel" -> <<1, (nt - 1) \div 16, (nt - 1) \div 4, nt - 1>>
         [] b = "sealedDouble" -> <<nt - 1>>
         [] b = "storageDouble" -> <<1, 2, 3, 4, 125, 250, 500>>
         [] b = "leakingDouble" -> <<1, 62, 125, 500>>
         [] OTHER -> <<1, (nt - 1) \div 8, (nt - 1) \div 2, nt - 1>>

\* ------------------------------------------------------------ stage hand-off
\* One use of a stage object: swap(local, object.member), a read of
\* object.member, or a call object.member(...).
Access(stage, kind, member) == [stage |-> stage, kind |-> kind, member |-> member]

\* The same kind of use for a list of members, in order.
AccessEach(stage, kind, members) ==
  [i \in 1..Len(members) |-> Access(stage, kind, members[i])]

\* "Passing variables" of myGrid, up to the displacement fields.
GridMembers ==
  <<"numberOfActiveUDisplacementFV", "numberOfActiveVDisplacementFV",
    "numberOfActiveGeneralFV", "dx", "dy", "dt", "h", "uDisplacementFVIndex",
    "vDisplacementFVIndex", "generalFVIndex", "uDisplacementFVCoordinates",
    "vDisplacementFVCoordinates", "generalFVCoordinates", "horizontalFacesStatus",
    "verticalFacesStatus", "uDisplacementField", "vDisplacementField">>

\* The pressure field is swapped out by the single-porosity benchmarks and
\* copied by the dual-porosity ones: pPoreField=myGrid.pressureField.
GridAccesses(b) ==
  AccessEach("myGrid", "swap", GridMembers)
    \o <<Access("myGrid", IF IsDouble(b) THEN "read" ELSE "swap", "pressureField")>>

\* The method that applies a benchmark's initial conditions.
InitialConditionsMethod(b) ==
  CASE b = "sealedColumn" -> "applySealedColumnInitialConditions"
    [] b = "mandel" -> "applyMandelInitialConditions"
    [] IsDouble(b) -> "applyDoublePoreInitialConditions"
    [] OTHER -> "applyTerzaghiInitialConditions"

\* myProblem: the initial conditions, then "Passing variables".  The
\* single-porosity benchmarks swap the parameters out and copy the fields;
\* the dual-porosity ones copy everything and call computeLeakTerm.
ProblemAccesses(b) ==
  (IF AppliesInitialConditions(b)
     THEN <<Access("myProblem", "call", InitialConditionsMethod(b))>> ELSE << >>)
  \o (IF IsDouble(b)
        THEN AccessEach("myProblem", "read",
                        <<"psiPore", "psiFrac", "alpha", "S11", "S12", "S22">>)
             \o <<Access("myProblem", "call", "computeLeakTerm")>>
             \o (IF b = "terzaghiDouble"
                   THEN <<Access("myProblem", "read", "consolCoef")>> ELSE << >>)
             \o (IF AppliesInitialConditions(b)
                   THEN AccessEach("myProblem", "read",
                                   <<"vDisplacementField", "pressurePoreField",
                                     "pressureFracField">>)
                   ELSE << >>)
        ELSE AccessEach("myProblem", "swap",
                        <<"Q", "alpha", "M", "c", "dt_vv", "dt_carlos", "P0">>)
             \o AccessEach("myProblem", "read",
                           <<"uDisplacementField", "vDisplacementField",
                             "pressureField">>))

\* Mutant: the pressure field is swapped out of myGrid and then copied from it.
StageAccessesReadBack(b, label) ==
  IF label = "grid"
    THEN AccessEach("myGrid", "swap", GridMembers)
           \o <<Access("myGrid", "swap", "pressureField"),
                Access("myGrid", "read", "pressureField")>>
    ELSE << >>

\* The uses of the stage objects by the statements at a label, in source order.
StageAccesses(b, label) ==
  CASE label = "grid" -> GridAccesses(b)
    [] label = "problem" -> ProblemAccesses(b)
    [] label = "coeff" ->
         <<Access("myCoefficients", "call",
                  IF IsDouble(b) THEN "assemblyDoublePorosityMatrix"
                  ELSE "assemblyCoefficientsMatrix")>>
    [] label = "coeffMandel" ->
         <<Access("myCoefficients", "call", "assemblyMandelCoefficientsMatrix")>>
    [] label = "sparseMandel" ->
         <<Access("myCoefficients", "read", "coefficientsMatrix"),
           Access("myCoefficients", "call", "assemblySparseMatrix")>>
    [] label = "coeffStrip" -> <<Access("myCoefficients", "call", "addStripfootBC")>>
    [] label = "coeffMacroStrip" ->
         <<Access("myCoefficients", "call", "addMacroStripfootBC")>>
    [] label = "passCoeff" ->
         AccessEach("myCoefficients", "swap",
                    <<"coefficientsMatrix", "sparseCoefficientsRow",
                      "sparseCoefficientsColumn", "sparseCoefficientsValue">>)
    [] OTHER -> << >>

\* Whether a use touches a member of a stage object.  A read or a swap touches
\* the member it names; the bodies of the stage classes are not part of the
\* sources, so a method is taken to depend on every member of its object.
Touches(a, stage, member) ==
  a.stage = stage /\ (a.kind = "call" \/ a.member = member)

\* ------------------------------------------------------------------- state
VARIABLES
  prog,          \* "mainDimless", "mainDouble", a benchmark called directly, or the harness
  mainPc,        \* the statement of main about to run
  mainI,         \* main's loop index i over timestepSize
  petsc,         \* "off", "on", "finalized"
  runInfo,       \* the run-info record: created?, the dt entries exported
  mesh,          \* myGrid: the members gridDesign computes for the domain
  bench,         \* the benchmark function
  Nt,            \* its argument Nt
  Lt,            \* its argument Lt, in hundredths of the consolidation time
  gridType,      \* its argument gridType: the arrangement
  interpScheme,  \* its argument interpScheme
  pc,            \* the statement of the benchmark about to run
  timeStep,      \* the loop variable
  ierr,          \* the last PetscErrorCode
  grid,          \* Nu, Nv, NP after "Passing variables"
  fields,        \* uField, vField, pField / pPoreField, pFracField
  coeffs,        \* myCoefficients
  operator,      \* coefficientsMatrix and the sparseCoefficients vectors
  terms,         \* myIndependentTerms.independentTermsArray
  independentTermsArray,
  solver,        \* myLinearSystemSolver
  calls,         \* how often each solver method was called in this run
  stepLog,       \* the step indices handed to setFieldValue, in order
  exportedTimeSteps,
  exportI,       \* the export loop's index
  ioLog,         \* console lines and exports, in order
  lastCall,      \* harness: the last solver call, its result, the solver before it
  accesses       \* the uses of myGrid, myProblem and myCoefficients so far, in order

vars ==
  <<prog, mainPc, mainI, petsc, runInfo, mesh, bench, Nt, Lt, gridType, interpScheme, pc, timeStep, ierr, grid,
    fields, coeffs, operator, terms, independentTermsArray, solver, calls, stepLog,
    exportedTimeSteps, exportI, ioLog, lastCall, accesses>>

mainVars == <<prog, mainPc, mainI, petsc, runInfo, mesh>>

NoGrid == [Nu |-> 0, Nv |-> 0, NP |-> 0]

NoFields == [q \in {} |-> 0]

NoCalls ==
  [factorize |-> 0, create |-> 0, zero |-> 0, setRHS |-> 0, solve |-> 0,
   setField |-> 0, setMacroField |-> 0]

NoCall == [op |-> "none", ierr |-> 0, before |-> NoSolver, arg |-> 0]

\* The locals of a benchmark at function entry.
BenchEntry ==
  /\ timeStep = 0
  /\ ierr = 0
  /\ grid = NoGrid
  /\ fields = NoFields
  /\ coeffs = NewCoefficients
  /\ operator = NewCoefficients
  /\ terms = << >>
  /\ independentTermsArray = << >>
  /\ solver = NoSolver
  /\ calls = NoCalls
  /\ stepLog = << >>
  /\ exportedTimeSteps = << >>
  /\ exportI = 0
  /\ ioLog = << >>
  /\ accesses = << >>

\* A run: one of the two mains, or a benchmark called with any Nt.
Init ==
  /\ mesh \in {GridDesign(d) : d \in StaggeredDomains \cup DegenerateDomains}
  /\ gridType \in ArrangementModes \ {"collocated"}
  /\ interpScheme \in Schemes
  /\ ~CombinationDefined(gridType, interpScheme) =>
       mesh.Nu = 1 /\ mesh.Nv = 1 /\ mesh.NP = 1
  /\ mainI = 0
  /\ petsc = "off"
  /\ runInfo = [created |-> FALSE, dts |-> << >>]
  /\ lastCall = NoCall
  /\ BenchEntry
  /\ \/ /\ prog \in {"mainDimless", "mainDouble"}
        /\ mainPc = "openFile"
        /\ bench = MainBenchmark(prog)
        /\ Nt = MainNt
        /\ Lt = 0
        /\ pc = "idle"
     \/ /\ prog = "direct"
        /\ mainPc = "direct"
        /\ bench \in Benchmarks
        /\ Nt \in 1..MaxNt
        /\ Lt = DirectLt
        /\ pc = "grid"

\* ---------------------------------------------------------------- the mains
benchVars ==
  <<timeStep, ierr, grid, fields, coeffs, operator, terms, independentTermsArray,
    solver, calls, stepLog, exportedTimeSteps, exportI, ioLog>>

\* Mutant: PETSc is initialized before the file is tested.
MainOpenFileAfterInitialize ==
  /\ mainPc = "openFile"
  /\ petsc' = "on"
  /\ \E opened \in BOOLEAN : mainPc' = IF opened THEN "createInfo" ELSE "exit1"
  /\ UNCHANGED <<prog, mainI, runInfo, mesh, bench, Nt, Lt, gridType, interpScheme, pc,
                 benchVars, lastCall, accesses>>

\* inFile.open(...); if(!inFile) exit(1)
MainOpenFile ==
  /\ mainPc = "openFile"
  /\ \E opened \in BOOLEAN : mainPc' = IF opened THEN "petscInit" ELSE "exit1"
  /\ UNCHANGED <<prog, mainI, petsc, runInfo, mesh, bench, Nt, Lt, gridType, interpScheme, pc, benchVars, lastCall, accesses>>

\* ierr=PetscInitialize(...);CHKERRQ(ierr)
MainPetscInitialize ==
  /\ mainPc = "petscInit"
  /\ \E e \in ErrCodes :
       /\ petsc' = IF e = 0 THEN "on" ELSE petsc
       /\ mainPc' = Chk(e, "createInfo")
  /\ UNCHANGED <<prog, mainI, runInfo, mesh, bench, Nt, Lt, gridType, interpScheme, pc, benchVars, lastCall, accesses>>

\* createSolveRunInfo(myGridType,myInterpScheme,"Terzaghi")
MainCreateSolveRunInfo ==
  /\ mainPc = "createInfo"
  /\ runInfo' = [created |-> TRUE, dts |-> << >>]
  /\ mainPc' = "loopTest"
  /\ UNCHANGED <<prog, mainI, petsc, mesh, bench, Nt, Lt, gridType, interpScheme, pc, benchVars, lastCall, accesses>>

\* Mutant: the loop goes straight to the benchmark call.
MainLoopTestSkipsRecord ==
  /\ mainPc = "loopTest"
  /\ mainPc' = IF mainI < TimestepCount(prog) THEN "call" ELSE "finalize"
  /\ UNCHANGED <<prog, mainI, petsc, runInfo, mesh, bench, Nt, Lt, gridType, interpScheme,
                 pc, benchVars, lastCall, accesses>>

\* for(int i=0; i<timestepSize.size(); i++)
MainLoopTest ==
  /\ mainPc = "loopTest"
  /\ mainPc' = IF mainI < TimestepCount(prog) THEN "exportInfo" ELSE "finalize"
  /\ UNCHANGED <<prog, mainI, petsc, runInfo, mesh, bench, Nt, Lt, gridType, interpScheme, pc, benchVars, lastCall, accesses>>

\* Lt=...; dt=Lt/(Nt-1); exportSolveRunInfo(dt,...)
MainExportSolveRunInfo ==
  /\ mainPc = "exportInfo"
  /\ Lt' = (Nt - 1) * TimestepSize(prog)[mainI + 1]
  /\ runInfo' = [runInfo EXCEPT !.dts = Append(@, Divide(Lt', Nt - 1))]
  /\ mainPc' = "call"
  /\ UNCHANGED <<prog, mainI, petsc, mesh, bench, Nt, gridType, interpScheme, pc, benchVars, lastCall, accesses>>

\* ierr=terzaghi(...) / terzaghiDouble(...): the call enters the benchmark.
MainCallBenchmark ==
  /\ mainPc = "call"
  /\ mainPc' = "inCall"
  /\ pc' = "grid"
  /\ timeStep' = 0
  /\ ierr' = 0
  /\ grid' = NoGrid
  /\ fields' = NoFields
  /\ coeffs' = NewCoefficients
  /\ operator' = NewCoefficients
  /\ terms' = << >>
  /\ independentTermsArray' = << >>
  /\ solver' = NoSolver
  /\ calls' = NoCalls
  /\ stepLog' = << >>
  /\ exportedTimeSteps' = << >>
  /\ exportI' = 0
  /\ ioLog' = << >>
  /\ accesses' = << >>
  /\ UNCHANGED <<prog, mainI, petsc, runInfo, mesh, bench, Nt, Lt, gridType, interpScheme, lastCall>>

\* ...;CHKERRQ(ierr) on the benchmark's return value, then i++.
MainBenchmarkReturns ==
  /\ mainPc = "inCall"
  /\ pc \in {"done", "aborted"}
  /\ mainPc' = Chk(ierr, "loopTest")
  /\ mainI' = IF ierr = 0 THEN mainI + 1 ELSE mainI
  /\ pc' = "idle"
  /\ UNCHANGED <<prog, petsc, runInfo, mesh, bench, Nt, Lt, gridType, interpScheme, benchVars, lastCall, accesses>>

\* ierr=PetscFinalize();CHKERRQ(ierr); return ierr
MainPetscFinalize ==
  /\ mainPc = "finalize"
  /\ \E e \in ErrCodes :
       /\ petsc' = IF e = 0 THEN "finalized" ELSE petsc
       /\ mainPc' = Chk(e, "done")
  /\ UNCHANGED <<prog, mainI, runInfo, mesh, bench, Nt, Lt, gridType, interpScheme, pc, benchVars, lastCall, accesses>>

\* ------------------------------------------------------------ the benchmarks
\* A statement that calls no solver method: pc moves on.
Step(label) ==
  /\ pc = label
  /\ pc' = Succ(bench, label)
  /\ accesses' = accesses \o StageAccesses(bench, label)
  /\ UNCHANGED <<mainVars, bench, Nt, Lt, gridType, interpScheme, lastCall>>

\* ierr=myLinearSystemSolver.<method>(...);CHKERRQ(ierr)
SolverCall(label, outcomes, counter) ==
  /\ pc = label
  /\ \E o \in outcomes :
       /\ ierr' = o[1]
       /\ solver' = o[2]
       /\ pc' = Chk(o[1], Succ(bench, label))
  /\ calls' = [calls EXCEPT ![counter] = @ + 1]
  /\ UNCHANGED <<mainVars, bench, Nt, Lt, gridType, interpScheme, lastCall, accesses, accesses>>

\* gridDesign myGrid(...) on a polygon that leaves a quantity no active cell:
\* the configuration error is reported and the program ends there.
MeshError ==
  /\ pc = "grid"
  /\ NoActiveCells(mesh)
  /\ pc' = "meshError"
  /\ ioLog' = Append(ioLog, [kind |-> "meshError", step |-> 0])
  /\ UNCHANGED <<mainVars, bench, Nt, Lt, gridType, interpScheme, lastCall, accesses, timeStep, ierr,
                 grid, fields, coeffs, operator, terms, independentTermsArray, solver,
                 calls, stepLog, exportedTimeSteps, exportI>>

\* gridDesign myGrid(...) and "Passing variables".
GridCreation ==
  /\ ~NoActiveCells(mesh)
  /\ Step("grid")
  /\ grid' = MeshFor(mesh, Lt, Nt)
  /\ fields' = GridFields(bench, Nt)
  /\ UNCHANGED <<timeStep, ierr, coeffs, operator, terms, independentTermsArray, solver,
                 calls, stepLog, exportedTimeSteps, exportI, ioLog>>

\* problemParameters myProblem(...), the initial conditions, the fields copied back.
ProblemParameters ==
  /\ Step("problem")
  /\ fields' = ApplyInitialConditions(bench, fields)
  /\ UNCHANGED <<timeStep, ierr, grid, coeffs, operator, terms, independentTermsArray,
                 solver, calls, stepLog, exportedTimeSteps, exportI, ioLog>>

coeffFrame ==
  <<timeStep, ierr, grid, fields, operator, terms, independentTermsArray, solver, calls,
    stepLog, exportedTimeSteps, exportI, ioLog>>

\* Mutant: the assembler halves the benchmark's dt in place.
CoefficientsAssemblyWritesDt ==
  /\ CombinationDefined(gridType, interpScheme)
  /\ Step("coeff")
  /\ coeffs' = AssemblyCoefficientsMatrix(bench, grid)
  /\ grid' = [grid EXCEPT !.dt = Divide(Lt, 2 * (Nt - 1))]
  /\ UNCHANGED <<timeStep, ierr, fields, operator, terms, independentTermsArray, solver,
                 calls, stepLog, exportedTimeSteps, exportI, ioLog>>

\* coefficientsAssembly myCoefficients(...,gridType,interpScheme) given a
\* combination it is not defined for: the configuration error is reported and
\* the program ends there.
ConfigurationError ==
  /\ pc = "coeff"
  /\ ~CombinationDefined(gridType, interpScheme)
  /\ pc' = "configError"
  /\ ioLog' = Append(ioLog, [kind |-> "configError", step |-> 0])
  /\ UNCHANGED <<mainVars, bench, Nt, Lt, gridType, interpScheme, lastCall, accesses, timeStep, ierr,
                 grid, fields, coeffs, operator, terms, independentTermsArray, solver,
                 calls, stepLog, exportedTimeSteps, exportI>>

\* myCoefficients.assemblyCoefficientsMatrix / assemblyDoublePorosityMatrix
CoefficientsAssembly ==
  /\ CombinationDefined(gridType, interpScheme)
  /\ Step("coeff")
  /\ coeffs' = AssemblyCoefficientsMatrix(bench, grid)
  /\ UNCHANGED coeffFrame

\* myCoefficients.assemblyMandelCoefficientsMatrix(dx,dy,G,lambda,alpha)
MandelCoefficients ==
  /\ Step("coeffMandel")
  /\ coeffs' = AssemblyMandelCoefficientsMatrix(coeffs)
  /\ UNCHANGED coeffFrame

\* Mutant: the triplets are not produced again.
MandelSparseSkipped ==
  /\ Step("sparseMandel")
  /\ coeffs' = coeffs
  /\ UNCHANGED coeffFrame

\* myCoefficients.assemblySparseMatrix(myCoefficients.coefficientsMatrix)
MandelSparse ==
  /\ Step("sparseMandel")
  /\ coeffs' = [coeffs EXCEPT !.sparse = AssemblySparseMatrix(coeffs.dense)]
  /\ UNCHANGED coeffFrame

\* myCoefficients.addStripfootBC(stripSize,K,mu_f)
StripfootCoefficients ==
  /\ Step("coeffStrip")
  /\ coeffs' = OverrideRow(coeffs, StripRow(grid))
  /\ UNCHANGED coeffFrame

\* myCoefficients.addMacroStripfootBC(stripSize,KFrac,mu_f)
MacroStripfootCoefficients ==
  /\ Step("coeffMacroStrip")
  /\ coeffs' = OverrideRow(coeffs, MacroStripRow(grid))
  /\ UNCHANGED coeffFrame

\* swap(coefficientsMatrix,myCoefficients.coefficientsMatrix) and the three
\* sparse vectors: the empty locals end up in myCoefficients.
PassCoefficients ==
  /\ Step("passCoeff")
  /\ operator' = coeffs
  /\ coeffs' = operator
  /\ UNCHANGED <<timeStep, ierr, grid, fields, terms, independentTermsArray, solver,
                 calls, stepLog, exportedTimeSteps, exportI, ioLog>>

\* Mutant: the maps and tables of v are handed over for u as well.
ConstructSolverMixedMaps ==
  /\ Step("construct")
  /\ terms' = NewTerms(grid)
  /\ solver' = NewSolver(operator, fields, [grid EXCEPT !.idU = grid.idV, !.cooU = grid.cooV])
  /\ UNCHANGED <<timeStep, ierr, grid, fields, coeffs, operator, independentTermsArray,
                 calls, stepLog, exportedTimeSteps, exportI, ioLog>>

\* independentTermsAssembly myIndependentTerms(...); linearSystemSolver
\* myLinearSystemSolver(...,Nu,Nv,NP,Nt,idU,idV,idP,cooU,cooV,cooP)
ConstructSolver ==
  /\ Step("construct")
  /\ terms' = NewTerms(grid)
  /\ solver' = NewSolver(operator, fields, grid)
  /\ UNCHANGED <<timeStep, ierr, grid, fields, coeffs, operator, independentTermsArray,
                 calls, stepLog, exportedTimeSteps, exportI, ioLog>>

termsFrame ==
  <<timeStep, ierr, grid, fields, coeffs, operator, independentTermsArray, solver, calls,
    stepLog, exportedTimeSteps, exportI, ioLog>>

\* myIndependentTerms.increaseMandelIndependentTermsArray() /
\* increaseMacroIndependentTermsArray()
IncreaseTerms ==
  /\ Step("increase")
  /\ terms' = IncreaseIndependentTermsArray(bench, terms, grid)
  /\ UNCHANGED termsFrame

\* myLinearSystemSolver.createMacroPressureField(pFracField)
CreateMacroField ==
  /\ Step("createMacro")
  /\ solver' = CreateMacroPressureField(solver, fields["pM"])
  /\ UNCHANGED <<timeStep, ierr, grid, fields, coeffs, operator, terms,
                 independentTermsArray, calls, stepLog, exportedTimeSteps, exportI, ioLog>>

callFrame ==
  <<timeStep, grid, fields, coeffs, operator, terms, independentTermsArray, stepLog,
    exportedTimeSteps, exportI, ioLog>>

\* ierr=myLinearSystemSolver.coefficientsMatrixLUFactorization();CHKERRQ(ierr)
Factorize ==
  /\ SolverCall("factorize", CoefficientsMatrixLUFactorization(solver), "factorize")
  /\ UNCHANGED callFrame

\* ierr=myLinearSystemSolver.createPETScArrays();CHKERRQ(ierr)
CreateArrays ==
  /\ SolverCall("createArrays", CreatePETScArrays(solver), "create")
  /\ UNCHANGED callFrame

\* ierr=myLinearSystemSolver.zeroPETScArrays();CHKERRQ(ierr), before the loop
ZeroInit ==
  /\ SolverCall("zeroInit", ZeroPETScArrays(solver), "zero")
  /\ UNCHANGED callFrame

\* for(timeStep=0; timeStep<Nt-1; timeStep++): the condition
LoopTest ==
  /\ pc = "loopTest"
  /\ pc' = IF LoopContinues(timeStep, Nt) THEN Succ(bench, "loopTest") ELSE LoopExit(bench)
  /\ UNCHANGED <<mainVars, bench, Nt, Lt, gridType, interpScheme, lastCall, accesses, benchVars>>

\* myIndependentTerms.assemblyIndependentTermsArray(...,uField,vField,pField,timeStep)
AssembleTerms ==
  /\ Step("assemble")
  /\ terms' = AssemblyIndependentTermsArray(bench, terms, grid, fields, timeStep)
  /\ UNCHANGED termsFrame

\* myIndependentTerms.assemblyMandelIndependentTermsArray(forceb,Lx)
AssembleMandelTerms ==
  /\ Step("assembleMandel")
  /\ terms' = VariantIndependentTerms("mandel", terms, grid, timeStep)
  /\ UNCHANGED termsFrame

\* myIndependentTerms.addStripfootBC(stripSize,dx,sigmab)
AssembleStripfootTerms ==
  /\ Step("assembleStrip")
  /\ terms' = VariantIndependentTerms("stripfoot", terms, grid, timeStep)
  /\ UNCHANGED termsFrame

\* myIndependentTerms.addMacroStripfootBC(stripSize,dx,sigmab)
AssembleMacroStripfootTerms ==
  /\ Step("assembleMacroStrip")
  /\ terms' = VariantIndependentTerms("macroStripfoot", terms, grid, timeStep)
  /\ UNCHANGED termsFrame

\* Mutant: the array is copied in the first iteration only.
PassTermsOnce ==
  /\ Step("passRHS")
  /\ independentTermsArray' = IF timeStep = 0 THEN terms ELSE independentTermsArray
  /\ UNCHANGED <<timeStep, ierr, grid, fields, coeffs, operator, terms, solver, calls,
                 stepLog, exportedTimeSteps, exportI, ioLog>>

\* independentTermsArray=myIndependentTerms.independentTermsArray
PassTerms ==
  /\ Step("passRHS")
  /\ independentTermsArray' = terms
  /\ UNCHANGED <<timeStep, ierr, grid, fields, coeffs, operator, terms, solver, calls,
                 stepLog, exportedTimeSteps, exportI, ioLog>>

\* ierr=myLinearSystemSolver.zeroPETScArrays();CHKERRQ(ierr), first in the step
ZeroPre ==
  /\ SolverCall("zeroPre", ZeroPETScArrays(solver), "zero")
  /\ UNCHANGED callFrame

\* ierr=myLinearSystemSolver.setRHSValue(independentTermsArray);CHKERRQ(ierr)
SetRHS ==
  /\ SolverCall("setRHS", SetRHSValue(solver, independentTermsArray), "setRHS")
  /\ UNCHANGED callFrame

\* ierr=myLinearSystemSolver.solveLinearSystem();CHKERRQ(ierr)
Solve ==
  /\ SolverCall("solve", SolveLinearSystem(solver), "solve")
  /\ UNCHANGED callFrame

\* ierr=myLinearSystemSolver.setFieldValue(timeStep+1);CHKERRQ(ierr)
SetField ==
  /\ SolverCall("setField", SetFieldValue(solver, StepIndex(timeStep)), "setField")
  /\ stepLog' = Append(stepLog, StepIndex(timeStep))
  /\ UNCHANGED <<timeStep, grid, fields, coeffs, operator, terms, independentTermsArray,
                 exportedTimeSteps, exportI, ioLog>>

\* ierr=myLinearSystemSolver.setMacroFieldValue(timeStep+1);CHKERRQ(ierr)
SetMacroField ==
  /\ SolverCall("setMacroField", SetMacroFieldValue(solver, StepIndex(timeStep)),
                "setMacroField")
  /\ UNCHANGED callFrame

\* Mutant: the solutions are not copied back.
KeepLocalFields(local, solved) == local

\* uField=myLinearSystemSolver.uField; ... pFracField=myLinearSystemSolver.pMField
FieldsAfterSolve(local, solved) == [q \in DOMAIN local |-> solved[q]]

\* "Passing solutions"
PassSolutions ==
  /\ Step("passSolutions")
  /\ fields' = FieldsAfterSolve(fields, solver.fields)
  /\ UNCHANGED <<timeStep, ierr, grid, coeffs, operator, terms, independentTermsArray,
                 solver, calls, stepLog, exportedTimeSteps, exportI, ioLog>>

\* ierr=myLinearSystemSolver.zeroPETScArrays();CHKERRQ(ierr), last in the step
ZeroPost ==
  /\ SolverCall("zeroPost", ZeroPETScArrays(solver), "zero")
  /\ UNCHANGED callFrame

\* cout << timeStep+1 << "\r"; then the loop's timeStep++
Progress ==
  /\ Step("progress")
  /\ ioLog' = Append(ioLog, [kind |-> "progress", step |-> timeStep + 1])
  /\ timeStep' = timeStep + 1
  /\ UNCHANGED <<ierr, grid, fields, coeffs, operator, terms, independentTermsArray,
                 solver, calls, stepLog, exportedTimeSteps, exportI>>

\* cout << Ny << "x" << Nx << "x" << Nt-1 ...
Summary ==
  /\ Step("summary")
  /\ ioLog' = Append(ioLog, [kind |-> "summary", step |-> Nt - 1])
  /\ UNCHANGED <<timeStep, ierr, grid, fields, coeffs, operator, terms,
                 independentTermsArray, solver, calls, stepLog, exportedTimeSteps, exportI>>

\* vector<int> exportedTimeSteps={...}; if(Nt==2) {...}
ExportList ==
  /\ Step("exportList")
  /\ exportedTimeSteps' = ExportedTimeSteps(bench, Nt)
  /\ UNCHANGED <<timeStep, ierr, grid, fields, coeffs, operator, terms,
                 independentTermsArray, solver, calls, stepLog, exportI, ioLog>>

\* dataProcessing myDataProcessing(...) (and storeMacroPressure3DField,
\* findMandelRoots)
DataProcessing ==
  /\ Step("dataProc")
  /\ UNCHANGED benchVars

\* myDataProcessing.getTerzaghiErrorNorm(...) and the line printing the norms
ErrorNorm ==
  /\ Step("errorNorm")
  /\ ioLog' = Append(ioLog, [kind |-> "errorNorm", step |-> Nt - 1])
  /\ UNCHANGED <<timeStep, ierr, grid, fields, coeffs, operator, terms,
                 independentTermsArray, solver, calls, stepLog, exportedTimeSteps, exportI>>

\* for(int i=0; i<exportedTimeSteps.size(); i++) { export...(exportedTimeSteps[i]) }
Export ==
  /\ pc = "export"
  /\ IF exportI < Len(exportedTimeSteps)
     THEN /\ ioLog' = Append(ioLog, [kind |-> "export", step |-> exportedTimeSteps[exportI + 1]])
          /\ exportI' = exportI + 1
          /\ pc' = pc
     ELSE /\ pc' = Succ(bench, "export")
          /\ UNCHANGED <<ioLog, exportI>>
  /\ UNCHANGED <<mainVars, bench, Nt, Lt, gridType, interpScheme, lastCall, accesses, timeStep, ierr, grid, fields, coeffs,
                 operator, terms, independentTermsArray, solver, calls, stepLog,
                 exportedTimeSteps>>

\* return ierr
Return ==
  /\ Step("return")
  /\ UNCHANGED benchVars

Next ==
  \/ MainOpenFile \/ MainPetscInitialize \/ MainCreateSolveRunInfo \/ MainLoopTest
  \/ MainExportSolveRunInfo \/ MainCallBenchmark \/ MainBenchmarkReturns
  \/ MainPetscFinalize
  \/ MeshError \/ GridCreation \/ ProblemParameters \/ ConfigurationError \/ CoefficientsAssembly
  \/ MandelCoefficients
  \/ MandelSparse \/ StripfootCoefficients \/ MacroStripfootCoefficients
  \/ PassCoefficients \/ ConstructSolver \/ IncreaseTerms \/ CreateMacroField
  \/ Factorize \/ CreateArrays \/ ZeroInit \/ LoopTest \/ AssembleTerms
  \/ AssembleMandelTerms \/ AssembleStripfootTerms \/ AssembleMacroStripfootTerms
  \/ PassTerms \/ ZeroPre \/ SetRHS \/ Solve \/ SetField \/ SetMacroField
  \/ PassSolutions \/ ZeroPost \/ Progress \/ Summary \/ ExportList \/ DataProcessing
  \/ ErrorNorm \/ Export \/ Return

Spec == Init /\ [][Next]_vars

\* The same runs on a processor that keeps executing: the program is
\* sequential, so whenever a statement can run, one eventually does.
\* Which cells are active plays no part in the control flow, so these runs
\* take the meshes with at most one cell of every quantity.
FairInit == Init /\ mesh.Nu <= 1 /\ mesh.Nv <= 1 /\ mesh.NP <= 1

FairSpec == FairInit /\ [][Next]_vars /\ WF_vars(Next)

\* --------------------------------------------------------- contract harness
\* A client of linearSystemSolver that calls its methods in any order, as a
\* contract test of the solver would: the benchmarks themselves only ever
\* call them in the order of ProgramOrder.
HarnessInit ==
  /\ prog = "contract"
  /\ mainPc = "harness"
  /\ pc = "harness"
  /\ mainI = 0
  /\ petsc = "on"
  /\ runInfo = [created |-> FALSE, dts |-> << >>]
  /\ mesh \in {g \in {GridDesign(d) : d \in StaggeredDomains} : g.Nu = g.Nv /\ g.Nv = g.NP}
  /\ bench = "terzaghi"
  /\ Nt = MainNt
  /\ Lt = DirectLt
  /\ gridType = "staggered"
  /\ interpScheme = "NA"
  /\ timeStep = 0
  /\ ierr = 0
  /\ grid = MeshFor(mesh, Lt, Nt)
  /\ fields = ApplyInitialConditions(bench, GridFields(bench, Nt))
  /\ coeffs = NewCoefficients
  /\ operator = AssemblyCoefficientsMatrix(bench, mesh)
  /\ terms = AssemblyIndependentTermsArray(bench, NewTerms(mesh), mesh, fields, 0)
  /\ independentTermsArray = terms
  /\ solver = NewSolver(operator, fields, grid)
  /\ calls = NoCalls
  /\ stepLog = << >>
  /\ exportedTimeSteps = << >>
  /\ exportI = 0
  /\ ioLog = << >>
  /\ lastCall = NoCall
  /\ accesses = << >>

TotalCalls ==
  calls.factorize + calls.create + calls.zero + calls.setRHS + calls.solve
    + calls.setField + calls.setMacroField

\* One call of a solver method by the harness.
HarnessCall(op, outcomes, arg) ==
  /\ pc = "harness"
  /\ TotalCalls < MaxCalls
  /\ \E o \in outcomes :
       /\ ierr' = o[1]
       /\ solver' = o[2]
       /\ lastCall' = [op |-> op, ierr |-> o[1], before |-> solver, arg |-> arg]
  /\ calls' = [calls EXCEPT ![op] = @ + 1]
  /\ UNCHANGED <<mainVars, bench, Nt, Lt, gridType, interpScheme, pc, timeStep, grid, fields, coeffs, operator, terms,
                 independentTermsArray, stepLog, exportedTimeSteps, exportI, ioLog,
                 accesses>>

HFactorize == HarnessCall("factorize", CoefficientsMatrixLUFactorization(solver), 0)

HCreateArrays == HarnessCall("create", CreatePETScArrays(solver), 0)

HZero == HarnessCall("zero", ZeroPETScArrays(solver), 0)

\* The arrays the harness loads: the assembled one, one row short, one row long.
HarnessArrays ==
  {terms, SubSeq(terms, 1, Len(terms) - 1), Append(terms, RhsRow("base", 0, {}, "none"))}

HSetRHS == \E arr \in HarnessArrays : HarnessCall("setRHS", SetRHSValue(solver, arr), Len(arr))

HSolve == HarnessCall("solve", SolveLinearSystem(solver), 0)

HSetField == HarnessCall("setField", SetFieldValue(solver, 1), 1)

HarnessNext == HFactorize \/ HCreateArrays \/ HZero \/ HSetRHS \/ HSolve \/ HSetField

\* The benchmarks and mains together with the contract harness.
ContractInit == Init \/ HarnessInit

ContractNext == Next \/ HarnessNext

ContractSpec == ContractInit /\ [][ContractNext]_vars

\* ------------------------------------------------------- collocated domains
\* terzaghi as the mains call it, on every collocated domain of the rectangle.
CollocatedInit ==
  /\ mesh \in {GridDesign(d) : d \in CollocatedDomains}
  /\ gridType = "collocated"
  /\ interpScheme \in Schemes
  /\ mainI = 0
  /\ petsc = "off"
  /\ runInfo = [created |-> FALSE, dts |-> << >>]
  /\ lastCall = NoCall
  /\ BenchEntry
  /\ prog = "direct"
  /\ mainPc = "direct"
  /\ bench = "terzaghi"
  /\ Nt = MainNt
  /\ Lt = DirectLt
  /\ pc = "grid"

MeshInit == Init \/ CollocatedInit

MeshSpec == MeshInit /\ [][Next]_vars

\* ------------------------------------------------------------- properties
\* The statements of a benchmark before its factorization call has run.
BeforeFactorization ==
  {"grid", "meshError", "problem", "coeff", "configError", "coeffMandel", "sparseMandel", "coeffStrip",
   "coeffMacroStrip", "passCoeff", "construct", "increase", "createMacro", "factorize"}

\* The statements of a loop iteration after the base assembly of the RHS.
AfterAssembly ==
  {"assembleMandel", "assembleStrip", "assembleMacroStrip", "passRHS", "zeroPre",
   "setRHS", "solve", "setField", "setMacroField", "passSolutions", "zeroPost", "progress"}

\* The statements after the time loop.
AfterLoop == {"summary", "exportList", "dataProc", "errorNorm", "export", "return", "done"}

\* C1: in a run of a benchmark the factorization is called exactly once, after
\* the operator is assembled and before the first solve; however many time
\* steps have run, the count stays 1 and every load and solve finds the solver
\* factorized.
C1_FactorizedOnce ==
  /\ pc \in BeforeFactorization =>
       calls.factorize = 0 /\ calls.setRHS = 0 /\ calls.solve = 0
  /\ pc \notin BeforeFactorization \cup {"idle", "harness"} => calls.factorize = 1
  /\ pc \in {"factorize"} => operator.dense.n > 0 /\ solver.dense = operator.dense
  /\ pc \in {"setRHS", "solve"} => solver.state = "Factored"

C1_Witness ==
  /\ pc = "done"
  /\ Nt = MaxNt
  /\ calls.solve = MaxNt - 1
  /\ calls.factorize = 1

\* C3: a run that is not aborted executes exactly Nt-1 solve steps, the k-th
\* of them hands step index k to setFieldValue, and Nt = 1 executes none.
C3_StepsInOrder ==
  /\ stepLog = [k \in 1..Len(stepLog) |-> k]
  /\ Len(stepLog) = calls.setField
  /\ calls.solve <= Nt - 1
  /\ pc \in AfterLoop =>
       /\ calls.solve = Nt - 1
       /\ calls.setRHS = Nt - 1
       /\ Len(stepLog) = Nt - 1
       /\ timeStep = Nt - 1
       /\ \A k \in 1..(Nt - 1) : \A q \in DOMAIN solver.fields :
            solver.fields[q][k].w = "solver"

C3_Witness ==
  /\ pc = "done"
  /\ Nt = MaxNt
  /\ stepLog = [k \in 1..(MaxNt - 1) |-> k]

C3_WitnessNoStep ==
  /\ pc = "done"
  /\ Nt = 1
  /\ calls.solve = 0
  /\ stepLog = << >>

\* The entry of quantity q at time level t that the assembly at iteration t is
\* to read: the level-0 entry of the set-up at t = 0, else the entry the solver
\* scattered at iteration t-1.
ExpectedEntry(b, q, t) ==
  IF t = 0
  THEN FieldEntry(q, IF q \in ICQuantities(b) THEN "ic" ELSE "grid", 0, {})
  ELSE FieldEntry(q, "solver", t, {t - 1})

\* C4: the RHS assembled and loaded at an iteration is computed from the field
\* values the solver wrote in the iteration before (the initial values at the
\* first); they are read before the solver writes the next level, and no entry
\* of the benchmark's fields for a later level comes from anywhere but the solver.
C4_PreviousFieldsFeedRhs ==
  /\ pc \in AfterAssembly =>
       \A r \in 1..Len(terms) :
         terms[r].by = "base" =>
           /\ terms[r].step = timeStep
           /\ terms[r].src = {ExpectedEntry(bench, q, timeStep) : q \in Quantities(bench)}
  /\ pc \in AfterAssembly /\ solver.arrays \in {"rhs", "sol"} =>
       \A r \in 1..Len(solver.rhs) :
         solver.rhs[r].by = "base" =>
           solver.rhs[r].src = {ExpectedEntry(bench, q, timeStep) : q \in Quantities(bench)}
  /\ pc \in {"assemble"} \cup (AfterAssembly \ {"setMacroField", "passSolutions", "zeroPost", "progress"}) =>
       \A q \in {"u", "v", "p"} : solver.fields[q][timeStep + 1].w = "grid"
  /\ pc \in {"assemble"} \cup AfterAssembly =>
       \A q \in DOMAIN solver.fields :
         /\ solver.fields[q][timeStep] = ExpectedEntry(bench, q, timeStep)
         /\ \A k \in 1..(Nt - 1) :
              \/ fields[q][k] = solver.fields[q][k]
              \/ fields[q][k].w = "grid" /\ k = timeStep + 1

C4_Witness ==
  /\ pc = "solve"
  /\ timeStep = 1
  /\ solver.arrays = "rhs"
  /\ \E r \in 1..Len(solver.rhs) :
       /\ solver.rhs[r].by = "base"
       /\ \E e \in solver.rhs[r].src : e.w = "solver" /\ e.step = 1

\* C5: the working buffers hold no value when the RHS is loaded and again when
\* the iteration ends after the solution is scattered: zeroPETScArrays has run
\* once before the loop and twice in every completed iteration.
C5_BuffersZeroedAroundStep ==
  /\ pc = "setRHS" => solver.arrays = "zero" /\ calls.zero = 2 * timeStep + 2
  /\ pc \in {"progress"} => solver.arrays = "zero" /\ calls.zero = 2 * timeStep + 3
  /\ pc = "loopTest" => solver.arrays = "zero" /\ calls.zero = 2 * timeStep + 1
  /\ pc \in {"passSolutions", "zeroPost"} =>
       solver.arrays = "sol" /\ calls.setField = timeStep + 1

C5_Witness ==
  /\ pc = "progress"
  /\ timeStep = 1
  /\ solver.arrays = "zero"
  /\ calls.zero = 5
  /\ calls.setField = 2

\* What a benchmark writes to the console and to disk after a loop it finished.
AfterLoopOutput == {"summary", "errorNorm", "export"}

C6_Aborted ==
  /\ ierr # 0 => pc \in {"aborted", "idle"}
  /\ pc = "aborted" =>
       /\ ierr # 0
       /\ exportI = 0
       /\ \A i \in 1..Len(ioLog) : ioLog[i].kind \notin AfterLoopOutput
       /\ calls.solve \in {timeStep, timeStep + 1}
  /\ pc = "idle" /\ ierr # 0 =>
       /\ mainPc = "aborted"
       /\ mainI < TimestepCount(prog)
       /\ Len(runInfo.dts) = mainI + 1

C6_NoStepAfterError ==
  /\ ierr # 0 => UNCHANGED <<solver, calls, fields, stepLog, ioLog, timeStep, runInfo, mainI>>
  /\ mainPc = "aborted" => UNCHANGED vars

\* C6: a nonzero code from factorization, array creation, zeroing, RHS load,
\* solve or field extraction ends the benchmark at once: no call is made after
\* it (no retry, no further step), nothing is exported, and the main that
\* called it stops without running the remaining time-step sizes.
C6_ErrorReturnsAtOnce == [](C6_Aborted) /\ [][C6_NoStepAfterError]_vars

C6_Witness ==
  /\ prog = "mainDimless"
  /\ mainPc = "aborted"
  /\ pc = "idle"
  /\ mainI = 1
  /\ calls.solve = 1
  /\ ierr # 0

\* The variant calls of a benchmark's RHS assembly, in call order.
VariantsOf(b) ==
  CASE b = "mandel" -> {"mandel"}
    [] b = "stripfoot" -> {"stripfoot"}
    [] b = "stripfootDouble" -> {"stripfoot", "macroStripfoot"}
    [] OTHER -> {}

\* The rows of arr that variant v wrote last, in iteration t, after the base
\* assembly of the same iteration where the base assembly writes the row too.
VariantWins(v, arr, t) ==
  \A r \in VariantRows(v, grid, Len(arr)) :
    /\ arr[r].by = v
    /\ arr[r].step = t
    /\ r <= BaseRows(bench, grid) => arr[r].prev = "base"

\* C10: in the benchmarks with a variant RHS call (Mandel, strip footing and
\* its dual-porosity form) the variant's rows are written after the base
\* assembly of the same iteration and before the array is loaded, so the
\* array loaded and solved against carries the variant's value in those rows.
C10_VariantAfterBase ==
  \A v \in VariantsOf(bench) :
    /\ pc \in {"zeroPre", "setRHS"} => VariantWins(v, independentTermsArray, timeStep)
    /\ pc \in {"solve", "setField", "setMacroField", "passSolutions", "zeroPost"} =>
         VariantWins(v, solver.rhs, timeStep)

C10_Witness ==
  /\ bench = "stripfootDouble"
  /\ pc = "setField"
  /\ timeStep = 1
  /\ solver.arrays = "sol"
  /\ solver.rhs[MacroStripRow(grid)].by = "macroStripfoot"
  /\ solver.rhs[MacroStripRow(grid)].prev = "base"
  /\ solver.rhs[grid.Nu + grid.Nv].by = "stripfoot"

C2_WitnessFactored ==
  /\ lastCall.op = "solve"
  /\ lastCall.before.state = "Factored"
  /\ lastCall.ierr = 0
  /\ solver.arrays = "sol"

C7_WitnessDouble ==
  /\ bench = "terzaghiDouble"
  /\ pc = "solve"
  /\ solver.arrays = "rhs"
  /\ Len(solver.rhs) = grid.Nu + grid.Nv + 2 * grid.NP

C7_WitnessMismatch ==
  /\ lastCall.op = "setRHS"
  /\ lastCall.arg = SolverRows(solver) + 1
  /\ lastCall.ierr # 0
  /\ solver.arrays = "zero"

C8_WitnessDouble ==
  /\ bench = "stripfootDouble"
  /\ pc = "factorize"
  /\ SolverRows(solver) = grid.Nu + grid.Nv + 2 * grid.NP

C9_WitnessStripfoot ==
  /\ bench = "stripfootDouble"
  /\ pc = "factorize"
  /\ solver.dense.a[<<MacroStripRow(grid), MacroStripRow(grid)>>] = 1
  /\ \A i \in 1..Len(solver.sparse) :
       solver.sparse[i][1] = MacroStripRow(grid) => solver.sparse[i][2] = MacroStripRow(grid)

\* The writers of a row of a rebuilt array: the base assembly or a variant call.
RowWriters(b) == {"base"} \cup VariantsOf(b)

\* Every row of arr was written in iteration t, from nothing older than the
\* fields of time level t.
RebuiltAt(arr, t) ==
  \A r \in 1..Len(arr) :
    /\ arr[r].step = t
    /\ arr[r].by \in RowWriters(bench)
    /\ \A e \in arr[r].src : e.step = t

\* C11: the RHS loaded at an iteration is rebuilt in that iteration in every
\* row, from that iteration's inputs; no row of the array of the iteration
\* before is left in it, also where the array was enlarged before the loop.
C11_RhsRebuiltEveryStep ==
  /\ pc \in {"zeroPre", "setRHS"} => RebuiltAt(independentTermsArray, timeStep)
  /\ pc \in {"solve", "setField", "setMacroField", "passSolutions", "zeroPost"} =>
       RebuiltAt(solver.rhs, timeStep)

C11_Witness ==
  /\ bench = "mandel"
  /\ pc = "solve"
  /\ timeStep = 1
  /\ Len(solver.rhs) = BaseRows(bench, grid) + MandelExtraRows
  /\ solver.rhs[Len(solver.rhs)].step = 1
  /\ solver.rhs[1].by = "base"

\* The benchmark holds the members of myGrid ("Passing variables" has run).
GridBuilt == pc \notin {"idle", "grid", "meshError"}

\* p comes before q in row-major order.
Before(p, q) == p[1] < q[1] \/ (p[1] = q[1] /\ p[2] < q[2])

\* The active positions of an index map.
ActivePositions(id) == {p \in DOMAIN id : id[p] # Inactive}

\* C12: each index map (u, v, pressure) gives every logical position the
\* sentinel or an index, and the indices are exactly 0..N-1, none twice, N
\* being the active-cell count reported for the quantity.
C12_IndexMapIsPermutation ==
  GridBuilt =>
    \A q \in {"u", "v", "p"} :
      LET id == IdOf(grid, q)
          N == CountOf(grid, q)
      IN /\ DOMAIN id = Positions
         /\ \A p \in Positions : id[p] = Inactive \/ id[p] \in 0..(N - 1)
         /\ {id[p] : p \in ActivePositions(id)} = 0..(N - 1)
         /\ \A p1, p2 \in ActivePositions(id) : id[p1] = id[p2] => p1 = p2
         /\ Inactive \notin 0..(N - 1)

C12_Witness ==
  /\ GridBuilt
  /\ grid.NP = 2
  /\ grid.idP[<<1, 1>>] = Inactive
  /\ grid.idP[<<1, 2>>] = 0
  /\ grid.idP[<<2, 1>>] = 1
  /\ grid.idU = grid.idP

\* C13: the coordinate table and the index map of a quantity are inverses of
\* each other: the table's line index[p] is p for every active position p,
\* and the map gives i at the position in line i, for i in 0..N-1.
C13_CoordinatesInvertIndex ==
  GridBuilt =>
    \A q \in {"u", "v", "p"} :
      LET id == IdOf(grid, q)
          coo == CooOf(grid, q)
      IN /\ Len(coo) = CountOf(grid, q)
         /\ \A p \in ActivePositions(id) : id[p] + 1 \in 1..Len(coo) /\ coo[id[p] + 1] = p
         /\ \A i \in 0..(CountOf(grid, q) - 1) : coo[i + 1] \in Positions /\ id[coo[i + 1]] = i

C13_Witness ==
  /\ GridBuilt
  /\ grid.Nv = 3
  /\ grid.cooV = <<(<<1, 1>>), (<<1, 2>>), (<<2, 2>>)>>
  /\ grid.idV[<<2, 2>>] = 2
  /\ grid.idV[<<2, 1>>] = Inactive

\* The quantities in the block order of the linear system.
BlockOrder == <<"u", "v", "p", "pM">>

\* The cells of the quantities stacked before the k-th block.
RECURSIVE CellsBefore(_, _)
CellsBefore(g, k) == IF k <= 1 THEN 0 ELSE CountOf(g, BlockOrder[k - 1]) + CellsBefore(g, k - 1)

AfterScatter == {"setMacroField", "passSolutions", "zeroPost", "progress"}

\* The cells of quantity q (the k-th block) at time level lev are filled from
\* the solution rows the benchmark's own index map names; inactive ones are not.
ScatteredByIndex(q, k, lev) ==
  \A p \in Positions :
    LET id == IdOf(grid, q)
    IN solver.cells[q][lev][p] =
         IF id[p] # Inactive THEN CellsBefore(grid, k) + id[p] + 1 ELSE NotWritten

\* C15: after the scatter of an iteration every active cell of u, v and the
\* pressure (and, once setMacroFieldValue has run, of the macro pressure) holds
\* at the new time level the entry of the solution at its quantity's block
\* offset plus its index in the mesh builder's map; inactive cells are not
\* written.
C15_ScatterFollowsIndexMaps ==
  /\ pc \in AfterScatter =>
       \A k \in 1..3 : ScatteredByIndex(BlockOrder[k], k, timeStep + 1)
  /\ pc \in AfterScatter \ {"setMacroField"} /\ IsDouble(bench) =>
       ScatteredByIndex("pM", 4, timeStep + 1)

C15_Witness ==
  /\ pc = "passSolutions"
  /\ bench = "terzaghiDouble"
  /\ timeStep = 1
  /\ grid.Nu = 2 /\ grid.Nv = 1 /\ grid.NP = 2
  /\ solver.cells["p"][2][<<2, 1>>] = 5
  /\ solver.cells["pM"][2][<<2, 1>>] = 7
  /\ solver.cells["pM"][2][<<1, 2>>] = NotWritten
  /\ solver.cells["u"][2][<<1, 1>>] = NotWritten

\* C16: a dual-porosity benchmark creates the macro-pressure field in the
\* solver before the factorization and follows every solve, before the buffers
\* are zeroed, by setFieldValue and setMacroFieldValue with the same step
\* index, the macro pressure going to an array of its own; a single-porosity
\* benchmark never creates or extracts one.
C16_MacroFieldExtracted ==
  /\ IsDouble(bench) /\ pc \notin BeforeFactorization \cup {"idle", "harness"} =>
       "pM" \in DOMAIN solver.fields
  /\ IsDouble(bench) /\ pc = "factorize" =>
       "pM" \in DOMAIN solver.fields /\ calls.factorize = 0
  /\ IsDouble(bench) /\ pc \in {"passSolutions", "zeroPost"} =>
       /\ solver.arrays = "sol"
       /\ calls.solve = timeStep + 1
       /\ calls.setField = timeStep + 1
       /\ calls.setMacroField = timeStep + 1
       /\ stepLog[Len(stepLog)] = timeStep + 1
       /\ solver.fields["pM"][timeStep + 1] = FieldEntry("pM", "solver", timeStep + 1, {timeStep})
       /\ solver.fields["p"][timeStep + 1] = FieldEntry("p", "solver", timeStep + 1, {timeStep})
  /\ IsDouble(bench) /\ pc \in {"progress", "loopTest"} \cup AfterLoop =>
       calls.setMacroField = calls.solve /\ calls.setField = calls.solve
  /\ ~IsDouble(bench) /\ pc \notin {"idle", "harness"} =>
       /\ calls.setMacroField = 0
       /\ "pM" \notin DOMAIN solver.fields
       /\ "pM" \notin DOMAIN fields

C16_Witness ==
  /\ bench = "leakingDouble"
  /\ pc = "zeroPost"
  /\ timeStep = 1
  /\ calls.setMacroField = 2
  /\ fields["pM"][2].w = "solver"
  /\ fields["pM"][2] # fields["p"][2]

\* The result a solver holds after a solve: what it was solved with and from.
Result(s) == [dense |-> s.dense, rhs |-> s.rhs, solFrom |-> s.solFrom]

\* The solver a call leaves when it returns 0.
Ok(outcomes) == (CHOOSE o \in outcomes : o[1] = 0)[2]

\* A solver constructed afresh for the operator of s, factorized, and made to
\* solve once with rhs.
FreshSolve(s, rhs) ==
  LET s0 == NewSolver([dense |-> s.dense, sparse |-> s.sparse],
                      [q \in {"u", "v", "p"} |-> s.fields[q]], s.grid)
      s1 == Ok(CoefficientsMatrixLUFactorization(s0))
      s2 == Ok(CreatePETScArrays(s1))
      s3 == Ok(ZeroPETScArrays(s2))
      s4 == Ok(SetRHSValue(s3, rhs))
  IN Ok(SolveLinearSystem(s4))

C17_WitnessHarness ==
  /\ pc = "harness"
  /\ calls.solve = 2
  /\ lastCall.op = "solve"
  /\ lastCall.before.arrays = "sol"
  /\ solver.arrays = "sol"
  /\ solver.rhs # << >>

\* C18: every benchmark call that starts eventually is Done or aborted; Done
\* means the loop ran its Nt-1 steps and every listed export ran (convergence
\* lists none and prints its error norms instead); and a run
\* is only ever aborted by a non-zero error code, never cancelled or timed out.
C18_RunTerminates ==
  /\ (pc = "grid") ~> (pc \in {"done", "aborted", "meshError", "configError"})
  /\ [](pc = "done" =>
          /\ timeStep = Nt - 1
          /\ Len(stepLog) = Nt - 1
          /\ bench # "convergence" => exportedTimeSteps = ExportedTimeSteps(bench, Nt)
          /\ bench = "convergence" => ioLog[Len(ioLog)].kind = "errorNorm"
          /\ exportI = Len(exportedTimeSteps)
          /\ ierr = 0)
  /\ [][pc' = "aborted" /\ pc # "aborted" => ierr' # 0 /\ ierr = 0]_vars

C18_Witness ==
  /\ pc = "done"
  /\ Nt = MaxNt
  /\ Len(stepLog) = MaxNt - 1
  /\ exportI = Len(exportedTimeSteps)
  /\ exportI > 0

C18_WitnessAborted ==
  /\ pc = "aborted"
  /\ timeStep = 1
  /\ ierr # 0

\* The statements that change the operator held by myCoefficients.
OperatorAssembly == {"coeff", "coeffMandel", "sparseMandel", "coeffStrip", "coeffMacroStrip"}

\* The statements from the solver's construction up to the end of the call.
AfterHandOff ==
  ({"increase", "createMacro", "factorize", "createArrays", "zeroInit", "loopTest",
    "assemble", "aborted"} \cup AfterAssembly \cup AfterLoop)

\* The operator a benchmark assembles: the base assembly, then its variant.
AssembledOperator(b, g) ==
  LET base == AssemblyCoefficientsMatrix(b, g)
      plate == AssemblyMandelCoefficientsMatrix(base)
  IN CASE b = "mandel" -> [plate EXCEPT !.sparse = AssemblySparseMatrix(plate.dense)]
       [] b = "stripfoot" -> OverrideRow(base, StripRow(g))
       [] b = "stripfootDouble" ->
            OverrideRow(OverrideRow(base, StripRow(g)), MacroStripRow(g))
       [] OTHER -> base

\* What C19 asks of every state of a benchmark call.
C19_BuiltBeforeFactorization ==
  /\ pc \in OperatorAssembly => calls.factorize = 0 /\ solver = NoSolver
  /\ pc = "construct" => operator = AssembledOperator(bench, grid)
  /\ pc \in AfterHandOff =>
       /\ solver.dense = operator.dense
       /\ solver.sparse = operator.sparse
       /\ coeffs = NewCoefficients

\* What C19 asks of every step of a benchmark call.
C19_NoLaterChange ==
  /\ pc \in AfterHandOff =>
       /\ operator' = operator
       /\ coeffs' = coeffs
       /\ solver'.dense = solver.dense
       /\ solver'.sparse = solver.sparse
  /\ pc \in AfterHandOff /\ solver.state = "Factored" => solver'.state = "Factored"
  /\ pc \notin {"idle", "harness"} /\ (operator' # operator \/ coeffs' # coeffs) =>
       pc \in OperatorAssembly \cup {"passCoeff"}

\* C19: the operator is assembled (base, then the Mandel or strip-footing
\* additions) before the solver exists and before the factorization; from the
\* hand-off on the solver holds exactly that operator, and no later statement
\* changes the operator, the solver's copy of it or the factorization.
C19_OperatorFixedAfterHandOff ==
  [](C19_BuiltBeforeFactorization) /\ [][C19_NoLaterChange]_vars

C19_Witness ==
  /\ bench = "stripfootDouble"
  /\ pc = "return"
  /\ Nt = MaxNt
  /\ calls.factorize = 1
  /\ calls.solve = MaxNt - 1
  /\ solver.state = "Factored"
  /\ solver.dense = AssembledOperator(bench, grid).dense
  /\ operator # AssemblyCoefficientsMatrix(bench, grid)

C19_WitnessMandel ==
  /\ bench = "mandel"
  /\ pc = "zeroPost"
  /\ timeStep = 1
  /\ solver.state = "Factored"
  /\ solver.dense.n = BaseRows(bench, grid) + MandelExtraRows

\* What C20 asks of every state: the benchmark's grid values are the mesh
\* builder's, and the solver was handed the same ones.
C20_GridAsBuilt ==
  /\ GridBuilt => grid = MeshFor(mesh, Lt, Nt)
  /\ pc \in AfterHandOff => solver.grid = grid

\* What C20 asks of every step after mesh creation.
C20_GridUntouched ==
  pc \notin {"idle", "grid"} => grid' = grid /\ mesh' = mesh /\ Lt' = Lt /\ Nt' = Nt

\* C20: from mesh creation to the end of the call (Done or aborted) the index
\* maps, coordinate tables, face-status tables, active-cell counts and dx, dy,
\* dt, h keep the values the mesh builder gave them: no statement of operator
\* assembly, RHS assembly, a solve step or the exports changes them.
C20_MeshFixedAfterCreation ==
  [](C20_GridAsBuilt) /\ [][C20_GridUntouched]_vars

C20_Witness ==
  /\ pc = "done"
  /\ Nt = MaxNt
  /\ calls.solve = MaxNt - 1
  /\ exportI > 0
  /\ grid = MeshFor(mesh, Lt, Nt)
  /\ grid.NP = MaxCells
  /\ grid.idP # [p \in Positions |-> Inactive]

C20_WitnessCollocated ==
  /\ pc = "done"
  /\ calls.solve = MainNt - 1
  /\ grid = MeshFor(mesh, Lt, Nt)
  /\ grid.idU = grid.idP
  /\ grid.NP = 2 * MaxCells

\* The quantities a benchmark's tables have a column for.
TableColumns(b) == IF IsDouble(b) THEN 4 ELSE 3

C21_WitnessSingle ==
  /\ bench = "mandel"
  /\ pc = "coeff"
  /\ Len(BcType(bench)[4]) = 3
  /\ BcType(bench)[4][3] = 1

C22_WitnessUnknown ==
  /\ pc = "configError"
  /\ gridType = "collocated"
  /\ interpScheme = "unknown"

C22_WitnessDefined ==
  /\ pc = "done"
  /\ gridType = "collocated"
  /\ interpScheme = "I2DPIS"
  /\ calls.solve = 1

C23_WitnessAllEmpty ==
  /\ pc = "meshError"
  /\ mesh.Nu = 0
  /\ mesh.Nv = 0
  /\ mesh.NP = 0
  /\ mainPc = "inCall"

\* The entry of timestepSize a main is at, in hundredths of the
\* consolidation time.
CurrentTimestep == TimestepSize(prog)[mainI + 1]

\* C24: with Nt >= 2 the grid's dt is Lt/(Nt-1); in the mains, whose Lt is
\* (Nt-1) times the current timestepSize entry, the dt last recorded in the
\* run info is that entry and has the same value as the dt the benchmark took
\* from the grid, which is the one the solver's grid values carry.
C24_TimeStepSize ==
  /\ GridBuilt /\ Nt >= 2 =>
       /\ grid.dt.den # 0
       /\ grid.dt.num * (Nt - 1) = Lt * grid.dt.den
  /\ GridBuilt /\ prog \in {"mainDimless", "mainDouble"} =>
       /\ Lt = (Nt - 1) * CurrentTimestep
       /\ Len(runInfo.dts) = mainI + 1
       /\ SameValue(runInfo.dts[mainI + 1], Divide(CurrentTimestep, 1))
       /\ SameValue(runInfo.dts[mainI + 1], grid.dt)
       /\ pc \in AfterHandOff => SameValue(runInfo.dts[mainI + 1], solver.grid.dt)

C24_Witness ==
  /\ prog = "mainDimless"
  /\ mainI = 3
  /\ pc = "assemble"
  /\ Lt = 1
  /\ SameValue(grid.dt, Divide(1, 1))
  /\ Len(runInfo.dts) = 4

C24_WitnessDirect ==
  /\ prog = "direct"
  /\ Nt = MaxNt
  /\ pc = "coeff"
  /\ SameValue(grid.dt, Divide(DirectLt, MaxNt - 1))

\* The statements of a loop iteration, and the loop test that enters one.
InsideLoop ==
  IF pc = "loopTest" THEN LoopContinues(timeStep, Nt)
  ELSE pc \in {"assemble"} \cup AfterAssembly

\* C25: while a run is inside its step loop nothing has been exported,
\* reported or otherwise written: whatever the run writes, it writes after the
\* loop has finished.
C25_NoOutputInsideLoop ==
  pc \notin {"idle", "harness"} /\ InsideLoop => ioLog = << >>

\* What C26 asks of every state of a main.
C26_OneRunPerEntry ==
  prog \in {"mainDimless", "mainDouble"} =>
    /\ Nt = 2
    /\ mainI <= Len(TimestepSize(prog))
    /\ Len(runInfo.dts) \in {mainI, mainI + 1}
    /\ \A k \in 1..Len(runInfo.dts) :
         SameValue(runInfo.dts[k], Divide(TimestepSize(prog)[k], 1))
    /\ mainPc \in {"call", "inCall"} => Len(runInfo.dts) = mainI + 1
    /\ mainPc \in {"loopTest", "exportInfo", "finalize", "done"} => Len(runInfo.dts) = mainI
    /\ mainPc \in {"exportInfo", "call", "inCall"} => petsc = "on" /\ runInfo.created
    /\ mainPc = "inCall" =>
         /\ calls.factorize <= 1
         /\ calls.solve <= 1
         /\ pc = "done" => calls.factorize = 1 /\ calls.solve = 1 /\ stepLog = <<1>>
    /\ runInfo.created => petsc # "off"
    /\ mainPc \in {"finalize", "done"} => mainI = Len(TimestepSize(prog))
    /\ petsc = "finalized" <=> mainPc = "done"

\* What C26 asks of every step of a main: the record is created once and only
\* ever extended, and the entries are taken in list order, one per run.
C26_RecordOnlyGrows ==
  prog \in {"mainDimless", "mainDouble"} =>
    /\ runInfo.created => runInfo'.created
    /\ runInfo.created =>
         /\ Len(runInfo'.dts) >= Len(runInfo.dts)
         /\ \A k \in 1..Len(runInfo.dts) : runInfo'.dts[k] = runInfo.dts[k]
    /\ mainI' \in {mainI, mainI + 1}
    /\ mainI' = mainI + 1 => mainPc = "inCall" /\ pc = "done"

\* C26: each main initializes PETSc, creates the run-info record once, then
\* for each entry of timestepSize in list order records that entry's dt and
\* at once runs its benchmark once with Nt = 2 (one factorization, one solve
\* step), and finalizes PETSc after the last entry.
C26_MainsRunEveryEntry ==
  [](C26_OneRunPerEntry) /\ [][C26_RecordOnlyGrows]_vars

C26_Witness ==
  /\ prog = "mainDimless"
  /\ mainPc = "done"
  /\ petsc = "finalized"
  /\ mainI = 4
  /\ Len(runInfo.dts) = 4
  /\ calls.factorize = 1
  /\ calls.solve = 1

C26_WitnessDouble ==
  /\ prog = "mainDouble"
  /\ mainPc = "inCall"
  /\ mainI = 1
  /\ pc = "done"
  /\ bench = "terzaghiDouble"
  /\ calls.setMacroField = 1

\* C27: a main that could not open its properties file has exited with
\* status 1 having done nothing else: PETSc is not initialized, the run-info
\* record is not created, no dt is recorded, and no benchmark was entered (no
\* mesh, fields, operator, solver call, step or output); and exit(1) is only
\* ever reached from the test of the file.
C27_NoFileExitsFirst ==
  mainPc = "exit1" =>
    /\ prog \in {"mainDimless", "mainDouble"}
    /\ petsc = "off"
    /\ runInfo = [created |-> FALSE, dts |-> << >>]
    /\ mainI = 0
    /\ pc = "idle"
    /\ BenchEntry

C27_Witness ==
  /\ mainPc = "exit1"
  /\ prog = "mainDouble"
  /\ petsc = "off"
  /\ grid = NoGrid
  /\ calls = NoCalls

\* C28: with Nt >= 2, every time-step index a run has handed to an export
\* routine is one of the steps 1..Nt-1 its loop solved.
C28_ExportedStepsWereSolved ==
  pc \notin {"idle", "harness"} /\ Nt >= 2 =>
    \A i \in 1..Len(ioLog) :
      ioLog[i].kind = "export" => ioLog[i].step \in 1..(Nt - 1)

\* The entry a finished run is to hold for quantity q at time level j: the
\* set-up's entry for j = 0, else the one the j-th solve produced, from the
\* RHS assembled at iteration j-1.
HistoryEntry(q, j) ==
  IF j = 0 THEN ApplyInitialConditions(bench, GridFields(bench, Nt))[q][0]
  ELSE FieldEntry(q, "solver", j, {j - 1})

\* What C29 asks of every state: the levels already solved hold their own
\* solve's values, in the solver and, once passed, in the benchmark's arrays;
\* after the loop that is every level.
C29_HistoryHeld ==
  /\ pc \in {"assemble"} \cup AfterAssembly \cup AfterLoop \cup {"loopTest"} =>
       \A q \in DOMAIN fields : \A j \in 0..timeStep :
         /\ fields[q][j] = HistoryEntry(q, j)
         /\ solver.fields[q][j] = HistoryEntry(q, j)
  /\ pc \in AfterLoop =>
       /\ timeStep = Nt - 1
       /\ \A q \in DOMAIN fields : DOMAIN fields[q] = 0..(Nt - 1)

\* What C29 asks of every step of the loop: only the level being solved is
\* written.
C29_OnlyCurrentLevelWritten ==
  pc \in {"assemble"} \cup AfterAssembly =>
    /\ \A q \in DOMAIN solver.fields : \A j \in DOMAIN solver.fields[q] :
         j # timeStep + 1 => solver'.fields[q][j] = solver.fields[q][j]
    /\ \A q \in DOMAIN fields : \A j \in DOMAIN fields[q] :
         j # timeStep + 1 => fields'[q][j] = fields[q][j]

\* C29: the solve of step k writes time level k of the field arrays and no
\* other, so that after the loop level j holds what the j-th solve produced
\* and level 0 what the set-up left there.
C29_FieldHistoryKept ==
  [](C29_HistoryHeld) /\ [][C29_OnlyCurrentLevelWritten]_vars

C29_Witness ==
  /\ pc = "export"
  /\ bench = "storageDouble"
  /\ Nt = MaxNt
  /\ exportI = 2
  /\ fields["pM"][1] = FieldEntry("pM", "solver", 1, {0})
  /\ fields["pM"][MaxNt - 1] = FieldEntry("pM", "solver", MaxNt - 1, {MaxNt - 2})
  /\ fields["p"][0].w = "ic"

C29_WitnessSingle ==
  /\ pc = "done"
  /\ bench = "terzaghi"
  /\ Nt = MaxNt
  /\ fields["u"][1].rhsSteps = {0}
  /\ fields["u"][MaxNt - 1].rhsSteps = {MaxNt - 2}

\* ------------------------------------------------------------------- C30
\* The uses that come back to a member after it was swapped out of its object.
C30_StaleAccesses ==
  {<<i, j>> \in (DOMAIN accesses) \X (DOMAIN accesses) :
     /\ i < j
     /\ accesses[i].kind = "swap"
     /\ Touches(accesses[j], accesses[i].stage, accesses[i].member)}

\* C30: hand-off between stages is an exclusive transfer: once a benchmark has
\* swapped a member out of myGrid, myProblem or myCoefficients into a local it
\* never reads that member of the object again and never calls a method of the
\* object that depends on it, and the later stage works on the local: the
\* solver holds the operator of the local, not what the swap left behind in
\* myCoefficients.
C30_HandOffExclusive ==
  /\ C30_StaleAccesses = {}
  /\ \A i \in DOMAIN accesses : accesses[i].stage \in {"myGrid", "myProblem", "myCoefficients"}
  /\ pc \in AfterHandOff =>
       /\ solver.dense = operator.dense
       /\ solver.sparse = operator.sparse
       /\ solver.dense # coeffs.dense

\* terzaghiDouble after its hand-offs: pressureField was copied out of myGrid
\* after seventeen swaps, computeLeakTerm was called on myProblem, the
\* operator was swapped out of myCoefficients and the solver built from it.
C30_Witness ==
  /\ bench = "terzaghiDouble"
  /\ pc = "factorize"
  /\ \E i, j \in DOMAIN accesses :
       /\ i < j
       /\ accesses[i] = Access("myGrid", "swap", "vDisplacementField")
       /\ accesses[j] = Access("myGrid", "read", "pressureField")
  /\ \E i \in DOMAIN accesses : accesses[i] = Access("myProblem", "call", "computeLeakTerm")
  /\ accesses[Len(accesses)] = Access("myCoefficients", "swap", "sparseCoefficientsValue")
  /\ solver.dense = operator.dense

\* mandel at the end of a run: the initial conditions were applied before the
\* parameters left myProblem, the fields were copied after, and
\* coefficientsMatrix was read by assemblySparseMatrix before it was swapped.
C30_WitnessMandel ==
  /\ bench = "mandel"
  /\ pc = "done"
  /\ \E i, j, k \in DOMAIN accesses :
       /\ i < j /\ j < k
       /\ accesses[i] = Access("myProblem", "call", "applyMandelInitialConditions")
       /\ accesses[j] = Access("myProblem", "swap", "P0")
       /\ accesses[k] = Access("myProblem", "read", "pressureField")
  /\ \E i, j \in DOMAIN accesses :
       /\ i < j
       /\ accesses[i] = Access("myCoefficients", "read", "coefficientsMatrix")
       /\ accesses[j] = Access("myCoefficients", "swap", "coefficientsMatrix")

====
